---- MODULE Spec2Model ----
(***************************************************************************)
(* Race simulation backend: the session lifecycle of server.py (start,     *)
(* stop, reset and the two periodic asyncio tasks), the vehicle simulator  *)
(* of simulation_service.py and the rule engine of detection_service.py.   *)
(*                                                                         *)
(* Units.  Time is counted in telemetry periods (UPDATE_FREQUENCY =        *)
(* 0.05 s, so 20 units per second).  Speeds are kept in tenths of km/h.    *)
(* Track progress is kept in units of 1/ProgressUnits of a lap, chosen so  *)
(* that (speed/3.6) * delta_time / total_length is exactly                 *)
(* speedTenths * deltaUnits.                                               *)
(***************************************************************************)
EXTENDS Integers, Sequences, FiniteSets, TLC

\* ------------------------------------------------------------------ bounds
NumCars == 2
MaxElapsed == 200
MaxLog == 3
MaxTasks == 4
MaxCalls == 2
Epoch == 1000
MaxTicks == 2
NumDetCars == 3
MaxDetElapsed == 300
NumRuleCars == 5
LongPause == 12000
MaxShift == 2
MaxPitTicks == 205
MaxDriveTicks == 4

\* ------------------------------------------------------- program constants
TicksPerSecond == 20
ALERT_COOLDOWN == 5
PIT_CONGESTION_THRESHOLD == 3
PIT_CRITICAL_COUNT == 5
WEATHER_SLEEP_SECONDS == 10
TOTAL_LENGTH == 5000
NumTrackPoints == 226
Sector1Points == 75
Sector2Points == 78
PIT_STOP_TICKS == 100
MAX_ACCEL_CHANGE == 150
MIN_SPEED == 500
MAX_SPEED == 3400
GRID_GAP == 7200
LOW_GRIP == 60
SLOW_SPEED == 150
INCIDENT_DROP == 100
INCIDENT_SPEED == 50

\* 3.6 * TOTAL_LENGTH * TicksPerSecond * 10: one lap in progress units
ProgressUnits == 36 * TOTAL_LENGTH * TicksPerSecond
Third == ProgressUnits \div 3

Cars == 1..NumCars
SectorIds == 1..3
TaskIds == 1..MaxTasks
CallIds == 1..MaxCalls

\* settings.ALERT_COOLDOWN in time units
AlertCooldown == ALERT_COOLDOWN * TicksPerSecond
WeatherSleep == WEATHER_SLEEP_SECONDS * TicksPerSecond
TelemetrySleep == 1

Conditions == {"dry", "damp", "wet", "heavy_rain"}
\* mutant: the generator draws from all four conditions
GeneratedConditionsWithRain == <<"dry", "damp", "wet", "heavy_rain">>

\* conditions = [DRY, DAMP, WET] of generate_weather_data
GeneratedConditions == <<"dry", "damp", "wet">>

Min(a, b) == IF a < b THEN a ELSE b
Max(a, b) == IF a > b THEN a ELSE b
\* np.clip(x, lo, hi)
Clip(x, lo, hi) == Max(lo, Min(x, hi))

\* ---------------------------------------------------------- track geometry
\* progress % 1.0 on doubles. A progress is p whole progress units; a progress
\* of zero units may also be a value nearer to 0 than half the spacing of the
\* doubles below 1.0, of sign sub. Python takes fmod(progress, 1.0) and, the
\* result negative, adds 1.0 to it: for such a negative value the sum rounds
\* to 1.0 itself.
FloatMod1(p, sub) == IF p = 0 /\ sub < 0 THEN ProgressUnits ELSE p % ProgressUnits

\* progress + k on doubles: a sum that is not near 0 keeps no such residue
FloatShift(p, sub, k) ==
    [p |-> p + k * ProgressUnits, sub |-> IF p + k * ProgressUnits = 0 THEN sub ELSE 0]

\* progress % 1.0 (Python's % is non-negative for a positive modulus)
NormProgress(p) == FloatMod1(p, 0)

\* index = int(progress * len(self.track_points))
FloatIndex(p, sub) == (FloatMod1(p, sub) * NumTrackPoints) \div ProgressUnits
TrackIndex(p) == FloatIndex(p, 0)

\* track_points[i].sector: 75 points of sector 1, 78 of sector 2, 73 of sector 3
PointSector(i) ==
    IF i < Sector1Points THEN 1
    ELSE IF i < Sector1Points + Sector2Points THEN 2 ELSE 3

\* lines 77-80: the sector of the point at index, 1 for an index off the track
SectorOfIndex(index) ==
    IF 0 <= index /\ index < NumTrackPoints THEN PointSector(index) ELSE 1

get_sector_from_progress(p) == SectorOfIndex(TrackIndex(p))

\* _get_sector_from_progress on any double
FloatSector(p, sub) == SectorOfIndex(FloatIndex(p, sub))

\* ------------------------------------------------------- vehicle simulator
\* 500 * sin(k * pi / 6), k = 0..11, rounded: math.sin(sector_progress*pi*4)*50
\* sampled at 24 phases per sector third
SinTable == <<0, 250, 433, 500, 433, 250, 0, -250, -433, -500, -433, -250>>

\* target speed (tenths of km/h) before jitter, from the sector and the phase
\* q = progress % (1/3) in progress units (sector_progress = q / Third)
TargetSpeed(sector, q) ==
    IF sector = 1
    THEN IF 10 * q < 4 * Third THEN 3200 ELSE 1800 - (2000 * (q \div 100)) \div (Third \div 100)
    ELSE IF sector = 2
    THEN 2200 + SinTable[(((q * 24) \div Third) % 12) + 1]
    ELSE 1600 + (1400 * (q \div 100)) \div (Third \div 100)

\* mutant: the speed jumps to the target, with no limit on the change per call
calculate_speedUnlimited(progress, current_speed, jitter) ==
    LET sector == get_sector_from_progress(progress)
        q == progress % Third
        target_speed == TargetSpeed(sector, q) + jitter
    IN  Clip(target_speed, MIN_SPEED, MAX_SPEED)

\* mutant: the new speed is clipped to [0, 340]
calculate_speedFloorZero(progress, current_speed, jitter) ==
    LET sector == get_sector_from_progress(progress)
        q == progress % Third
        target_speed == TargetSpeed(sector, q) + jitter
        speed_diff == target_speed - current_speed
        actual_change == Clip(speed_diff, -MAX_ACCEL_CHANGE, MAX_ACCEL_CHANGE)
    IN  Clip(current_speed + actual_change, 0, MAX_SPEED)

\* mutant: the new speed is returned without max(50, min(340, new_speed))
calculate_speedUnclamped(progress, current_speed, jitter) ==
    LET sector == get_sector_from_progress(progress)
        q == progress % Third
        target_speed == TargetSpeed(sector, q) + jitter
        speed_diff == target_speed - current_speed
    IN  current_speed + Clip(speed_diff, -MAX_ACCEL_CHANGE, MAX_ACCEL_CHANGE)

calculate_speed_for_position(progress, current_speed, jitter) ==
    LET sector == get_sector_from_progress(progress)
        q == progress % Third
        target_speed == TargetSpeed(sector, q) + jitter
        speed_diff == target_speed - current_speed
        actual_change == Clip(speed_diff, -MAX_ACCEL_CHANGE, MAX_ACCEL_CHANGE)
    IN  Clip(current_speed + actual_change, MIN_SPEED, MAX_SPEED)

\* round(x) of a value held in tenths: round half to even
RoundTenths(x) ==
    LET f == x \div 10
        r == x % 10
    IN  IF r < 5 THEN f
        ELSE IF r > 5 THEN f + 1
        ELSE IF f % 2 = 0 THEN f ELSE f + 1

\* int(x) of a progress value: truncation toward zero, in laps
IntLaps(p) == IF p >= 0 THEN p \div ProgressUnits ELSE -((-p) \div ProgressUnits)

TireFor(lap_number) ==
    IF lap_number < 15 THEN "soft" ELSE IF lap_number < 35 THEN "medium" ELSE "hard"

\* CarState.__init__
CarState(start_progress, speed, t) ==
    [track_progress |-> start_progress, speed |-> speed,
     last_update_time |-> t, pit_stop_cooldown |-> 0]

\* mutant: the lap number is taken from the progress before the lap is
\* subtracted
UpdateCarLapBeforeWrap(car, t, jitter, pitDraw) ==
    LET delta_time == t - car.last_update_time
        speed == calculate_speed_for_position(car.track_progress, car.speed, jitter)
        advanced == car.track_progress + speed * delta_time
        wrapped == advanced >= ProgressUnits
        progress == IF wrapped THEN advanced - ProgressUnits ELSE advanced
        in_pit == car.pit_stop_cooldown > 0
        cooldown == IF in_pit THEN car.pit_stop_cooldown - 1
                    ELSE IF pitDraw THEN PIT_STOP_TICKS ELSE car.pit_stop_cooldown
        lap_number == IntLaps(advanced) + 1
    IN  [state |-> [track_progress |-> progress, speed |-> speed,
                    last_update_time |-> t, pit_stop_cooldown |-> cooldown],
         wrapped |-> wrapped,
         telemetry |-> [speed |-> RoundTenths(speed), in_pit |-> in_pit,
                        sector |-> get_sector_from_progress(progress),
                        current_lap |-> lap_number, tire |-> TireFor(lap_number)]]

\* mutant: the pit-stop draw is an if of its own, not the elif of the countdown
UpdateCarPitIf(car, t, jitter, pitDraw) ==
    LET delta_time == t - car.last_update_time
        speed == calculate_speed_for_position(car.track_progress, car.speed, jitter)
        advanced == car.track_progress + speed * delta_time
        wrapped == advanced >= ProgressUnits
        progress == IF wrapped THEN advanced - ProgressUnits ELSE advanced
        in_pit == car.pit_stop_cooldown > 0
        cooldown == IF pitDraw THEN PIT_STOP_TICKS
                    ELSE IF in_pit THEN car.pit_stop_cooldown - 1 ELSE car.pit_stop_cooldown
        lap_number == IntLaps(progress) + 1
    IN  [state |-> [track_progress |-> progress, speed |-> speed,
                    last_update_time |-> t, pit_stop_cooldown |-> cooldown],
         wrapped |-> wrapped,
         telemetry |-> [speed |-> RoundTenths(speed), in_pit |-> in_pit,
                        sector |-> get_sector_from_progress(progress),
                        current_lap |-> lap_number, tire |-> TireFor(lap_number)]]

\* the body of update_telemetry's loop for one car: the new CarState, whether
\* the car completed a lap, and its CarTelemetry
UpdateCar(car, t, jitter, pitDraw) ==
    LET delta_time == t - car.last_update_time
        speed == calculate_speed_for_position(car.track_progress, car.speed, jitter)
        advanced == car.track_progress + speed * delta_time
        wrapped == advanced >= ProgressUnits
        progress == IF wrapped THEN advanced - ProgressUnits ELSE advanced
        in_pit == car.pit_stop_cooldown > 0
        cooldown == IF in_pit THEN car.pit_stop_cooldown - 1
                    ELSE IF pitDraw THEN PIT_STOP_TICKS ELSE car.pit_stop_cooldown
        lap_number == IntLaps(progress) + 1
    IN  [state |-> [track_progress |-> progress, speed |-> speed,
                    last_update_time |-> t, pit_stop_cooldown |-> cooldown],
         wrapped |-> wrapped,
         telemetry |-> [speed |-> RoundTenths(speed), in_pit |-> in_pit,
                        sector |-> get_sector_from_progress(progress),
                        current_lap |-> lap_number, tire |-> TireFor(lap_number)]]

\* SimulationService.update_telemetry: draws[c] = [jitter, pit] are the random
\* draws of car c in this call
update_telemetry(simCars, lap, t, draws) ==
    LET upd == [c \in Cars |-> UpdateCar(simCars[c], t, draws[c].jitter, draws[c].pit)]
    IN  [cars |-> [c \in Cars |-> upd[c].state],
         current_lap |-> lap + Cardinality({c \in Cars : upd[c].wrapped}),
         telemetry |-> [c \in Cars |-> upd[c].telemetry]]

\* SimulationService._initialize_cars: start_progress = -0.002 * idx
initialize_cars(speeds, t) ==
    [c \in Cars |-> CarState(-GRID_GAP * (c - 1), speeds[c], t)]

\* the lookup tables of generate_weather_data
RainIntensity(condition) ==
    CASE condition = "dry" -> 0 [] condition = "damp" -> 20
      [] condition = "wet" -> 60 [] condition = "heavy_rain" -> 90

GripLevel(condition) ==
    CASE condition = "dry" -> 95 [] condition = "damp" -> 75
      [] condition = "wet" -> 50 [] condition = "heavy_rain" -> 30

WeatherZone(sector, condition) ==
    [sector_id |-> sector, condition |-> condition,
     rain_intensity |-> RainIntensity(condition), grip_level |-> GripLevel(condition)]

\* SimulationService.generate_weather_data: base is the index drawn for the base
\* condition, dev[s] the index drawn for sector s when it deviates (0: it does not)
generate_weather_data(base, dev) ==
    [s \in SectorIds |->
        WeatherZone(s, IF dev[s] = 0 THEN GeneratedConditions[base]
                       ELSE GeneratedConditions[dev[s]])]

\* -------------------------------------------------------- detection engine
\* an empty dict
EmptyMap == [k \in {} |-> 0]

\* dict.get(key, default)
Get(map, key, default) == IF key \in DOMAIN map THEN map[key] ELSE default

\* map[key] = value
Put(map, key, value) ==
    [k \in DOMAIN map \cup {key} |-> IF k = key THEN value ELSE map[k]]

SlowdownKey(c) == <<"slowdown", c>>
PitKey == <<"pit_congestion", 0>>
WeatherKey(s) == <<"weather_sector", s>>
GripKey(s) == <<"grip_sector", s>>

Alert(type, severity, car_id, sector) ==
    [type |-> type, severity |-> severity, car_id |-> car_id, sector |-> sector]

\* mutant: a drop of exactly 30% counts
DropOver30Inclusive(prev_speed, speed) ==
    prev_speed > 0 /\ 10 * (prev_speed - speed) >= 3 * prev_speed

\* speed_drop_pct > 0.3 and speed_drop_pct > 0.5 on
\* speed_drop_pct = (prev - cur) / prev if prev > 0 else 0
DropOver30(prev_speed, speed) == prev_speed > 0 /\ 10 * (prev_speed - speed) > 3 * prev_speed

\* mutant: the severity is critical only above a drop of 80%
DropOver80(prev_speed, speed) == prev_speed > 0 /\ 10 * (prev_speed - speed) > 8 * prev_speed

DropOver50(prev_speed, speed) == prev_speed > 0 /\ 2 * (prev_speed - speed) > prev_speed

\* the condition of line 72
SlowdownCondition(prev, cars, c) ==
    /\ c \in DOMAIN prev
    /\ DropOver30(prev[c].speed, cars[c].speed)
    /\ cars[c].speed < SLOW_SPEED
    /\ ~cars[c].in_pit

\* mutant: the cooldown test with >= for >
CooldownElapsedInclusive(hist, key, t, cooldown) == t - Get(hist, key, 0) >= cooldown

\* the cooldown test: now - last_alert > cooldown, last_alert = history.get(key, 0)
CooldownElapsed(hist, key, t, cooldown) == t - Get(hist, key, 0) > cooldown

RECURSIVE SlowdownLoop(_, _, _, _, _)
SlowdownLoop(c, cars, prev, acc, t) ==
    IF c > Len(cars) THEN acc
    ELSE IF SlowdownCondition(prev, cars, c)
            /\ CooldownElapsed(acc.history, SlowdownKey(c), t, AlertCooldown)
    THEN SlowdownLoop(c + 1, cars, prev,
            [alerts |-> Append(acc.alerts,
                Alert("slowdown",
                      IF DropOver50(prev[c].speed, cars[c].speed) THEN "critical" ELSE "warning",
                      c, cars[c].sector)),
             history |-> Put(acc.history, SlowdownKey(c), t)], t)
    ELSE SlowdownLoop(c + 1, cars, prev, acc, t)

detect_slowdowns(cars, prev, hist, t) ==
    SlowdownLoop(1, cars, prev, [alerts |-> <<>>, history |-> hist], t)

\* mutant: the threshold itself is not congestion
PitConditionStrict(cars) ==
    Cardinality({c \in 1..Len(cars) : cars[c].in_pit}) > PIT_CONGESTION_THRESHOLD

\* the condition of line 102
PitCondition(cars) ==
    Cardinality({c \in 1..Len(cars) : cars[c].in_pit}) >= PIT_CONGESTION_THRESHOLD

detect_pit_congestion(cars, hist, t) ==
    LET cars_in_pit == Cardinality({c \in 1..Len(cars) : cars[c].in_pit})
    IN  IF PitCondition(cars)
           /\ CooldownElapsed(hist, PitKey, t, AlertCooldown)
        THEN [alerts |-> <<Alert("pit_congestion",
                                 IF cars_in_pit >= PIT_CRITICAL_COUNT THEN "critical" ELSE "warning",
                                 0, 0)>>,
              history |-> Put(hist, PitKey, t)]
        ELSE [alerts |-> <<>>, history |-> hist]

\* the conditions of lines 131 and 152
WetCondition(zone) == zone.condition \in {"wet", "heavy_rain"}
GripCondition(zone) == zone.grip_level < LOW_GRIP

\* mutant: the low-grip rule is the elif of the adverse-condition rule
WeatherZoneStepElif(zone, acc, t) ==
    LET wet == /\ WetCondition(zone)
               /\ CooldownElapsed(acc.history, WeatherKey(zone.sector_id), t, AlertCooldown * 2)
        a1 == IF wet
              THEN [alerts |-> Append(acc.alerts,
                        Alert("weather",
                              IF zone.condition = "heavy_rain" THEN "critical" ELSE "warning",
                              0, zone.sector_id)),
                    history |-> Put(acc.history, WeatherKey(zone.sector_id), t)]
              ELSE acc
        grip == /\ ~WetCondition(zone)
                /\ GripCondition(zone)
                /\ CooldownElapsed(a1.history, GripKey(zone.sector_id), t, AlertCooldown * 2)
    IN  IF grip
        THEN [alerts |-> Append(a1.alerts, Alert("weather", "info", 0, zone.sector_id)),
              history |-> Put(a1.history, GripKey(zone.sector_id), t)]
        ELSE a1

\* mutant: the adverse-condition rule is gated by the base cooldown
WeatherZoneStepBaseCooldown(zone, acc, t) ==
    LET wet == /\ WetCondition(zone)
               /\ CooldownElapsed(acc.history, WeatherKey(zone.sector_id), t, AlertCooldown)
        a1 == IF wet
              THEN [alerts |-> Append(acc.alerts,
                        Alert("weather",
                              IF zone.condition = "heavy_rain" THEN "critical" ELSE "warning",
                              0, zone.sector_id)),
                    history |-> Put(acc.history, WeatherKey(zone.sector_id), t)]
              ELSE acc
        grip == /\ GripCondition(zone)
                /\ CooldownElapsed(a1.history, GripKey(zone.sector_id), t, AlertCooldown * 2)
    IN  IF grip
        THEN [alerts |-> Append(a1.alerts, Alert("weather", "info", 0, zone.sector_id)),
              history |-> Put(a1.history, GripKey(zone.sector_id), t)]
        ELSE a1

\* mutant: the low-grip rule looks its cooldown up under the key of the
\* adverse-condition rule
WeatherZoneStepOneKey(zone, acc, t) ==
    LET wet == /\ WetCondition(zone)
               /\ CooldownElapsed(acc.history, WeatherKey(zone.sector_id), t, AlertCooldown * 2)
        a1 == IF wet
              THEN [alerts |-> Append(acc.alerts,
                        Alert("weather",
                              IF zone.condition = "heavy_rain" THEN "critical" ELSE "warning",
                              0, zone.sector_id)),
                    history |-> Put(acc.history, WeatherKey(zone.sector_id), t)]
              ELSE acc
        grip == /\ GripCondition(zone)
                /\ CooldownElapsed(a1.history, WeatherKey(zone.sector_id), t, AlertCooldown * 2)
    IN  IF grip
        THEN [alerts |-> Append(a1.alerts, Alert("weather", "info", 0, zone.sector_id)),
              history |-> Put(a1.history, WeatherKey(zone.sector_id), t)]
        ELSE a1

\* one zone of _detect_weather_issues: the adverse-condition rule, then the
\* low-grip rule
WeatherZoneStep(zone, acc, t) ==
    LET wet == /\ WetCondition(zone)
               /\ CooldownElapsed(acc.history, WeatherKey(zone.sector_id), t, AlertCooldown * 2)
        a1 == IF wet
              THEN [alerts |-> Append(acc.alerts,
                        Alert("weather",
                              IF zone.condition = "heavy_rain" THEN "critical" ELSE "warning",
                              0, zone.sector_id)),
                    history |-> Put(acc.history, WeatherKey(zone.sector_id), t)]
              ELSE acc
        grip == /\ GripCondition(zone)
                /\ CooldownElapsed(a1.history, GripKey(zone.sector_id), t, AlertCooldown * 2)
    IN  IF grip
        THEN [alerts |-> Append(a1.alerts, Alert("weather", "info", 0, zone.sector_id)),
              history |-> Put(a1.history, GripKey(zone.sector_id), t)]
        ELSE a1

RECURSIVE WeatherLoop(_, _, _, _)
WeatherLoop(i, zones, acc, t) ==
    IF i > Len(zones) THEN acc
    ELSE WeatherLoop(i + 1, zones, WeatherZoneStep(zones[i], acc, t), t)

detect_weather_issues(zones, hist, t) ==
    WeatherLoop(1, zones, [alerts |-> <<>>, history |-> hist], t)

IncidentCondition(prev, cars, c) ==
    /\ c \in DOMAIN prev
    /\ prev[c].speed - cars[c].speed > INCIDENT_DROP
    /\ cars[c].speed < INCIDENT_SPEED
    /\ ~cars[c].in_pit

RECURSIVE IncidentLoop(_, _, _, _)
IncidentLoop(c, cars, prev, acc) ==
    IF c > Len(cars) THEN acc
    ELSE IF IncidentCondition(prev, cars, c)
    THEN IncidentLoop(c + 1, cars, prev,
            Append(acc, [type |-> "slowdown", car_id |-> c,
                         sector |-> cars[c].sector, severity |-> "high"]))
    ELSE IncidentLoop(c + 1, cars, prev, acc)

detect_incidents(cars, prev) == IncidentLoop(1, cars, prev, <<>>)

\* mutant: severity_map without its "high" entry
SeverityMapNoHigh(severity) ==
    CASE severity = "low" -> "info" [] severity = "medium" -> "warning"
      [] OTHER -> "warning"

SeverityMap(severity) ==
    CASE severity = "low" -> "info" [] severity = "medium" -> "warning"
      [] severity = "high" -> "critical" [] OTHER -> "warning"

incidents_to_alerts(incidents) ==
    [i \in 1..Len(incidents) |->
        Alert("incident", SeverityMap(incidents[i].severity),
              incidents[i].car_id, incidents[i].sector)]

\* mutant: the previous snapshots are replaced before the rules run
process_detectionsStoresFirst(cars, zones, prev, hist, t) ==
    LET stored == [c \in DOMAIN prev \cup (1..Len(cars)) |->
                      IF c <= Len(cars) THEN cars[c] ELSE prev[c]]
        slow == detect_slowdowns(cars, stored, hist, t)
        pit == detect_pit_congestion(cars, slow.history, t)
        wx == detect_weather_issues(zones, pit.history, t)
        detected_incidents == detect_incidents(cars, stored)
    IN  [alerts |-> slow.alerts \o pit.alerts \o wx.alerts
                    \o incidents_to_alerts(detected_incidents),
         incidents |-> detected_incidents,
         previous_telemetry |-> stored,
         alert_history |-> wx.history]

\* DetectionService.process_detections
process_detections(cars, zones, prev, hist, t) ==
    LET slow == detect_slowdowns(cars, prev, hist, t)
        pit == detect_pit_congestion(cars, slow.history, t)
        wx == detect_weather_issues(zones, pit.history, t)
        detected_incidents == detect_incidents(cars, prev)
    IN  [alerts |-> slow.alerts \o pit.alerts \o wx.alerts
                    \o incidents_to_alerts(detected_incidents),
         incidents |-> detected_incidents,
         previous_telemetry |-> [c \in DOMAIN prev \cup (1..Len(cars)) |->
                                    IF c <= Len(cars) THEN cars[c] ELSE prev[c]],
         alert_history |-> wx.history]

\* ------------------------------------------------------------------- state
VARIABLES
    settings,           \* config.settings, as loaded from the environment
    now,                \* time.time(), in time units
    is_session_active,  \* app_state.is_session_active
    update_task,        \* app_state.update_task (0: None)
    weather_task,       \* app_state.weather_task (0: None)
    race_session,       \* app_state.race_session: status, lap, time, weather
    sim,                \* app_state.simulation_service
    det,                \* app_state.detection_service
    tasks,              \* the asyncio tasks created by start_session
    calls,              \* the control handlers in flight
    sessionLog,         \* the statuses of the session_update messages broadcast
    out,                \* what the last process_detections call returned
    ticks,              \* telemetry passes run so far
    fired,              \* per alert key, when an alert of that key was last returned
                        \* since the detection state was last cleared
    ev                  \* the last step taken

vars == <<settings, now, is_session_active, update_task, weather_task, race_session, sim,
          det, tasks, calls, sessionLog, out, ticks, fired, ev>>

\* ------------------------------------------------------- inputs of the model
\* 80 + random() * 20, in tenths
InitSpeeds == {800}
InitSpeedDraws == {[c \in Cars |-> v] : v \in InitSpeeds}

\* (random() - 0.5) * 20, in tenths
Jitters == {-100, 99}
TickDraws ==
    {[c \in Cars |-> [jitter |-> j, pit |-> j > 0]] : j \in Jitters}

\* the draws of generate_weather_data: the base condition and the deviations
WeatherDraws ==
    {<<1, dev>> : dev \in {[s \in SectorIds |-> 0],
                           [s \in SectorIds |-> IF s = 2 THEN 3 ELSE 0]}}

\* the clock is observed at whole multiples of the alert cooldown after the
\* construction
TimeSteps == {AlertCooldown}

\* -------------------------------------------------------------------- tasks
FreeTask == [kind |-> "none", pc |-> "free", cancel |-> FALSE, wake |-> 0,
             alerts |-> <<>>, incidents |-> <<>>]

NewTask(kind) == [kind |-> kind, pc |-> "new", cancel |-> FALSE, wake |-> 0,
                  alerts |-> <<>>, incidents |-> <<>>]

IdleCall == [op |-> "none", via |-> "none", pc |-> "idle"]

FreeIds == {i \in TaskIds : tasks[i].pc = "free"}

\* a task that has been created, has not finished and has not been cancelled
Live(i) == tasks[i].pc # "free" /\ ~tasks[i].cancel
LiveOf(kind) == {i \in TaskIds : Live(i) /\ tasks[i].kind = kind}

Event(op, id, topic, result) == [op |-> op, id |-> id, topic |-> topic, result |-> result]

\* SimulationService.reset / __init__ at time t with the drawn start speeds
SimInit(speeds, t) ==
    [cars |-> initialize_cars(speeds, t), current_lap |-> 1, session_start_time |-> t]

\* DetectionService.__init__
DetInit == [previous_telemetry |-> EmptyMap, alert_history |-> EmptyMap]

\* mutant: reset clears the previous snapshots only
detection_resetKeepsHistory ==
    [previous_telemetry |-> EmptyMap, alert_history |-> det.alert_history]

\* DetectionService.reset: both dicts cleared
detection_reset == [previous_telemetry |-> EmptyMap, alert_history |-> EmptyMap]

NoOutput == [cars |-> <<>>, zones |-> <<>>, alerts |-> <<>>, incidents |-> <<>>]

\* Settings(): the defaults of the class, or what the environment gives
DefaultSettings == [UPDATE_FREQUENCY |-> TelemetrySleep]

\* AppState.__init__
Init ==
    /\ settings = DefaultSettings
    /\ now = Epoch
    /\ is_session_active = FALSE
    /\ update_task = 0
    /\ weather_task = 0
    /\ \E w \in WeatherDraws :
          race_session = [session_status |-> "not_started", current_lap |-> 1,
                          session_time |-> 0,
                          weather |-> generate_weather_data(w[1], w[2])]
    /\ \E speeds \in InitSpeedDraws : sim = SimInit(speeds, Epoch)
    /\ det = DetInit
    /\ tasks = [i \in TaskIds |-> FreeTask]
    /\ calls = [k \in CallIds |-> IdleCall]
    /\ sessionLog = <<>>
    /\ out = NoOutput
    /\ ticks = 0
    /\ fired = EmptyMap
    /\ ev = Event("init", 0, "none", "none")

\* the dedup key an alert was produced under (an incident alert has none)
AlertKey(a) ==
    CASE a.type = "slowdown" -> SlowdownKey(a.car_id)
      [] a.type = "pit_congestion" -> PitKey
      [] a.type = "weather" /\ a.severity = "info" -> GripKey(a.sector)
      [] a.type = "weather" /\ a.severity # "info" -> WeatherKey(a.sector)
      [] OTHER -> <<"incident", a.car_id>>

GatedKeys(alerts) ==
    {AlertKey(alerts[j]) : j \in {n \in 1..Len(alerts) : alerts[n].type # "incident"}}

\* the cooldown a key is gated by
Cooldown(key) ==
    IF key[1] \in {"weather_sector", "grip_sector"} THEN AlertCooldown * 2 ELSE AlertCooldown

\* whether the condition of a key holds for the inputs of an evaluation
KeyCondition(key, prev, cars, zones) ==
    CASE key[1] = "slowdown" -> key[2] <= Len(cars) /\ SlowdownCondition(prev, cars, key[2])
      [] key[1] = "pit_congestion" -> PitCondition(cars)
      [] key[1] = "weather_sector" ->
            \E i \in 1..Len(zones) : zones[i].sector_id = key[2] /\ WetCondition(zones[i])
      [] key[1] = "grip_sector" ->
            \E i \in 1..Len(zones) : zones[i].sector_id = key[2] /\ GripCondition(zones[i])
      [] OTHER -> FALSE

\* the firing record after an evaluation at time t returned alerts. Per key:
\* at, when an alert of the key was last returned; streak, how many alerts of
\* the key were returned while its condition held on every evaluation;
\* suppressed, whether the condition held on the last evaluation and no alert
\* was returned; cleared, whether the detection state was cleared since;
\* revived, whether the last alert came after a suppressed record was cleared,
\* within the cooldown of that record
Fired(record, prev, cars, zones, alerts, t) ==
    LET hit == GatedKeys(alerts)
    IN  [key \in DOMAIN record \cup hit |->
            IF key \in hit
            THEN [at |-> t,
                  streak |-> IF key \in DOMAIN record /\ ~record[key].cleared
                                /\ record[key].streak > 0
                             THEN record[key].streak + 1 ELSE 1,
                  suppressed |-> FALSE,
                  cleared |-> FALSE,
                  revived |-> /\ key \in DOMAIN record
                              /\ record[key].cleared
                              /\ record[key].suppressed
                              /\ t - record[key].at <= Cooldown(key)]
            ELSE IF record[key].cleared THEN record[key]
            ELSE IF KeyCondition(key, prev, cars, zones)
            THEN [record[key] EXCEPT !.suppressed = TRUE]
            ELSE [record[key] EXCEPT !.streak = 0, !.suppressed = FALSE]]

\* the firing record after the detection state was cleared: what is kept is
\* which keys were being suppressed, and since when
ClearFired(record) ==
    [key \in {k \in DOMAIN record : record[k].suppressed} |->
        [record[key] EXCEPT !.cleared = TRUE, !.streak = 0, !.revived = FALSE]]

\* a key with a firing the detection state still remembers
Recorded(key) == key \in DOMAIN fired /\ ~fired[key].cleared

\* the inputs and the results of one process_detections call
Output(cars, zones, d) ==
    [cars |-> cars, zones |-> zones, alerts |-> d.alerts, incidents |-> d.incidents]

\* ----------------------------------------------------------- control calls
\* a new request is served by the first handler slot that is idle
FirstIdle(k) == calls[k].pc = "idle" /\ \A j \in CallIds : calls[j].pc = "idle" => k <= j

\* Task.cancel() puts the wake-up of the cancelled task on the ready queue of
\* the event loop at once: it is delivered in the loop's next iteration, as
\* soon as the cancelling handler reaches its await, before any step that
\* becomes ready later
NoCancelPending == \A i \in TaskIds : ~tasks[i].cancel

\* mutant: the task is not cancelled
CancelTaskNoop(ts, ref) == ts

\* Task.cancel() on a task reference: a finished task is left alone
CancelTask(ts, ref) ==
    IF ref # 0 /\ ts[ref].pc # "free" THEN [ts EXCEPT ![ref].cancel = TRUE] ELSE ts

\* mutant: stop_session cancels the telemetry task only
StopBodyKeepsWeather ==
    /\ is_session_active' = FALSE
    /\ race_session' = [race_session EXCEPT !.session_status = "paused"]
    /\ tasks' = CancelTask(tasks, update_task)
    /\ update_task' = 0
    /\ weather_task' = weather_task
    /\ sessionLog' = Append(sessionLog, "paused")

\* mutant: stop_session also zeroes the elapsed time
StopBodyZeroesTime ==
    /\ is_session_active' = FALSE
    /\ race_session' = [race_session EXCEPT !.session_status = "paused",
                                            !.session_time = 0]
    /\ tasks' = CancelTask(CancelTask(tasks, update_task), weather_task)
    /\ update_task' = 0
    /\ weather_task' = 0
    /\ sessionLog' = Append(sessionLog, "paused")

\* stop_session up to its await sio.emit (lines 260-277)
StopBody ==
    /\ is_session_active' = FALSE
    /\ race_session' = [race_session EXCEPT !.session_status = "paused"]
    /\ tasks' = CancelTask(CancelTask(tasks, update_task), weather_task)
    /\ update_task' = 0
    /\ weather_task' = 0
    /\ sessionLog' = Append(sessionLog, "paused")

\* mutant: start_session without its is_session_active guard
StartCallUnguarded(k) ==
    /\ FirstIdle(k)
    /\ NoCancelPending
    /\ Len(sessionLog) < MaxLog
    /\ is_session_active' = TRUE
    /\ race_session' = [race_session EXCEPT !.session_status = "in_progress"]
    /\ sessionLog' = Append(sessionLog, "in_progress")
    /\ calls' = [calls EXCEPT ![k] = [op |-> "start", via |-> "any", pc |-> "start_emit"]]
    /\ ev' = Event("start_call", k, "session_update", "none")
    /\ UNCHANGED <<settings, now, update_task, weather_task, sim, det, tasks, out, ticks, fired>>

\* start_session_endpoint / the start_session socket event, up to the await
\* sio.emit of start_session
StartCall(k) ==
    /\ FirstIdle(k)
    /\ NoCancelPending
    /\ Len(sessionLog) < MaxLog
    /\ IF is_session_active
       THEN /\ ev' = Event("start_rejected", k, "none", "false")
            /\ UNCHANGED <<settings, now, is_session_active, update_task, weather_task,
                           race_session, sim, det, tasks, calls, sessionLog, out, ticks, fired>>
       ELSE /\ is_session_active' = TRUE
            /\ race_session' = [race_session EXCEPT !.session_status = "in_progress"]
            /\ sessionLog' = Append(sessionLog, "in_progress")
            /\ calls' = [calls EXCEPT ![k] = [op |-> "start", via |-> "any", pc |-> "start_emit"]]
            /\ ev' = Event("start_call", k, "session_update", "none")
            /\ UNCHANGED <<settings, now, update_task, weather_task, sim, det, tasks, out, ticks, fired>>

\* mutant: start_session creates the telemetry task only
CreateTasksTelemetryOnly(k) ==
    \E a \in FreeIds :
        /\ \A i \in FreeIds : a <= i
        /\ tasks' = [tasks EXCEPT ![a] = NewTask("telemetry")]
        /\ update_task' = a
        /\ weather_task' = 0

\* start_session after its await: asyncio.create_task twice (lines 251-252)
CreateTasks(k) ==
    \E a \in FreeIds : \E b \in FreeIds \ {a} :
        /\ \A i \in FreeIds : a <= i
        /\ \A i \in FreeIds \ {a} : b <= i
        /\ tasks' = [tasks EXCEPT ![a] = NewTask("telemetry"), ![b] = NewTask("weather")]
        /\ update_task' = a
        /\ weather_task' = b

StartResume(k) ==
    /\ calls[k].pc = "start_emit"
    /\ NoCancelPending
    /\ CreateTasks(k)
    /\ calls' = [calls EXCEPT ![k] = IdleCall]
    /\ ev' = Event("start_done", k, "none", "true")
    /\ UNCHANGED <<settings, now, is_session_active, race_session, sim, det, sessionLog, out, ticks, fired>>

\* stop_session_endpoint / the stop_session socket event, up to the await
StopCall(k) ==
    /\ FirstIdle(k)
    /\ NoCancelPending
    /\ Len(sessionLog) < MaxLog
    /\ IF ~is_session_active
       THEN /\ ev' = Event("stop_rejected", k, "none", "false")
            /\ UNCHANGED <<settings, now, is_session_active, update_task, weather_task,
                           race_session, sim, det, tasks, calls, sessionLog, out, ticks, fired>>
       ELSE /\ StopBody
            /\ calls' = [calls EXCEPT ![k] = [op |-> "stop", via |-> "any", pc |-> "stop_emit"]]
            /\ ev' = Event("stop_call", k, "session_update", "none")
            /\ UNCHANGED <<settings, now, sim, det, out, ticks, fired>>

StopResume(k) ==
    /\ calls[k].pc = "stop_emit"
    /\ NoCancelPending
    /\ calls' = [calls EXCEPT ![k] = IdleCall]
    /\ ev' = Event("stop_done", k, "none", "true")
    /\ UNCHANGED <<settings, now, is_session_active, update_task, weather_task, race_session,
                   sim, det, tasks, sessionLog, out, ticks, fired>>

\* what follows await stop_session() in reset_session_endpoint (lines 168-173)
\* and in the reset_session socket event (lines 223-224); rs is the session
\* as stop_session left it
ResetTail(via, rs) ==
    /\ \E speeds \in InitSpeedDraws : sim' = SimInit(speeds, now)
    /\ det' = detection_reset
    /\ fired' = ClearFired(fired)
    /\ race_session' =
          IF via = "rest"
          THEN [rs EXCEPT !.current_lap = 1, !.session_time = 0,
                          !.session_status = "not_started"]
          ELSE rs

\* reset_session_endpoint / the reset_session socket event, up to the await
\* inside stop_session; with no active session stop_session returns at once
ResetCall(k, via) ==
    /\ FirstIdle(k)
    /\ NoCancelPending
    /\ Len(sessionLog) < MaxLog
    /\ IF ~is_session_active
       THEN /\ ResetTail(via, race_session)
            /\ ev' = Event("reset_done", k, "none", via)
            /\ UNCHANGED <<settings, now, is_session_active, update_task, weather_task,
                           tasks, calls, sessionLog, out, ticks>>
       ELSE /\ StopBody
            /\ calls' = [calls EXCEPT ![k] = [op |-> "reset", via |-> via, pc |-> "reset_emit"]]
            /\ ev' = Event("reset_call", k, "session_update", "none")
            /\ UNCHANGED <<settings, now, sim, det, out, ticks, fired>>

ResetResume(k) ==
    /\ calls[k].pc = "reset_emit"
    /\ NoCancelPending
    /\ ResetTail(calls[k].via, race_session)
    /\ calls' = [calls EXCEPT ![k] = IdleCall]
    /\ ev' = Event("reset_done", k, "none", calls[k].via)
    /\ UNCHANGED <<settings, now, is_session_active, update_task, weather_task, tasks,
                   sessionLog, out, ticks>>

\* ----------------------------------------------------------- periodic tasks
\* a task suspended at an await can be resumed: a sleep only once it is over
Resumable(i) ==
    /\ NoCancelPending
    /\ tasks[i].pc \in {"sleep", "error_sleep"} => now >= tasks[i].wake

Suspend(i, pc, wake, alerts, incidents) ==
    [tasks EXCEPT ![i] = [kind |-> tasks[i].kind, pc |-> pc, cancel |-> FALSE,
                          wake |-> wake, alerts |-> alerts, incidents |-> incidents]]

\* mutant: the except branch lets the error end the task
ErrorExit(i, period) == [tasks EXCEPT ![i] = FreeTask]

\* asyncio.sleep(settings.UPDATE_FREQUENCY): a delay of 0 or less only yields
TelemetryPeriod == Max(0, settings.UPDATE_FREQUENCY)

\* the except Exception branch of both loops: print, then sleep
ErrorSleep(i, period) == Suspend(i, "error_sleep", now + period, <<>>, <<>>)

\* int(time.time() - self.session_start_time), in seconds
SessionTime(t) == (t - sim.session_start_time) \div TicksPerSecond

\* one pass of the try block of telemetry_update_loop up to its first await
\* (lines 297-316): fail names the statement that raises, draws the random
\* draws of update_telemetry
TelemetryBody(i, fail, draws) ==
    IF fail = "simulate"
    THEN /\ tasks' = ErrorSleep(i, TelemetryPeriod)
         /\ ev' = Event("telemetry_error", i, "none", fail)
         /\ UNCHANGED <<settings, race_session, sim, det, out, fired>>
    ELSE LET r == update_telemetry(sim.cars, sim.current_lap, now, draws)
             d == process_detections(r.telemetry, race_session.weather,
                                     det.previous_telemetry, det.alert_history, now)
         IN  /\ sim' = [sim EXCEPT !.cars = r.cars, !.current_lap = r.current_lap]
             /\ race_session' = [race_session EXCEPT
                                    !.current_lap = r.current_lap,
                                    !.session_time = SessionTime(now)]
             /\ det' = [previous_telemetry |-> d.previous_telemetry,
                        alert_history |-> d.alert_history]
             /\ out' = Output(r.telemetry, race_session.weather, d)
             /\ fired' = Fired(fired, det.previous_telemetry, r.telemetry,
                                race_session.weather, d.alerts, now)
             /\ IF fail = "publish"
                THEN /\ tasks' = ErrorSleep(i, TelemetryPeriod)
                     /\ ev' = Event("telemetry_error", i, "none", fail)
                ELSE /\ tasks' = Suspend(i, "emit_telemetry", 0, d.alerts, d.incidents)
                     /\ ev' = Event("telemetry_tick", i, "telemetry_update", tasks[i].pc)

\* telemetry_update_loop at its loop condition (line 295): from the start of
\* the task, after its sleep, or after the sleep of the except branch
TelemetryTick(i) ==
    /\ tasks[i].kind = "telemetry"
    /\ tasks[i].pc \in {"new", "sleep", "error_sleep"}
    /\ tasks[i].pc = "new" => settings.UPDATE_FREQUENCY # 0
    /\ Resumable(i)
    /\ IF ~is_session_active
       THEN /\ tasks' = [tasks EXCEPT ![i] = FreeTask]
            /\ ev' = Event("telemetry_exit", i, "none", tasks[i].pc)
            /\ UNCHANGED <<settings, race_session, sim, det, out, ticks, fired>>
       ELSE /\ ticks < MaxTicks
            /\ ticks' = ticks + 1
            /\ \E fail \in {"none", "simulate", "publish"} : \E draws \in TickDraws :
                  TelemetryBody(i, fail, draws)
    /\ UNCHANGED <<settings, now, is_session_active, update_task, weather_task, calls, sessionLog>>

\* the first step of telemetry_update_loop with UPDATE_FREQUENCY = 0: the
\* print of line 293 divides by it, outside the try block, and the task ends
TelemetryCrash(i) ==
    /\ tasks[i].kind = "telemetry"
    /\ tasks[i].pc = "new"
    /\ settings.UPDATE_FREQUENCY = 0
    /\ Resumable(i)
    /\ tasks' = [tasks EXCEPT ![i] = FreeTask]
    /\ ev' = Event("telemetry_crash", i, "none", "new")
    /\ UNCHANGED <<settings, now, is_session_active, update_task, weather_task,
                   race_session, sim, det, calls, sessionLog, out, ticks, fired>>

\* mutant: only the first alert of a pass is published
TelemetryResumeOneAlert(i) ==
    /\ tasks[i].kind = "telemetry"
    /\ tasks[i].pc \in {"emit_telemetry", "emit_alert", "emit_incident"}
    /\ Resumable(i)
    /\ IF tasks[i].pc = "emit_telemetry" /\ tasks[i].alerts # <<>>
       THEN /\ tasks' = Suspend(i, "emit_alert", 0, Tail(tasks[i].alerts), tasks[i].incidents)
            /\ ev' = Event("telemetry_publish", i, "alert", tasks[i].pc)
       ELSE IF tasks[i].incidents # <<>>
       THEN /\ tasks' = Suspend(i, "emit_incident", 0, <<>>, Tail(tasks[i].incidents))
            /\ ev' = Event("telemetry_publish", i, "incident", tasks[i].pc)
       ELSE /\ tasks' = Suspend(i, "sleep", now + TelemetryPeriod, <<>>, <<>>)
            /\ ev' = Event("telemetry_sleep", i, "none", tasks[i].pc)
    /\ UNCHANGED <<settings, now, is_session_active, update_task, weather_task, race_session,
                   sim, det, calls, sessionLog, out, ticks, fired>>

\* telemetry_update_loop resumed after an await sio.emit (lines 319-335): the
\* next alert, then the next incident, then the sleep
TelemetryResume(i) ==
    /\ tasks[i].kind = "telemetry"
    /\ tasks[i].pc \in {"emit_telemetry", "emit_alert", "emit_incident"}
    /\ Resumable(i)
    /\ IF tasks[i].pc # "emit_incident" /\ tasks[i].alerts # <<>>
       THEN /\ tasks' = Suspend(i, "emit_alert", 0, Tail(tasks[i].alerts), tasks[i].incidents)
            /\ ev' = Event("telemetry_publish", i, "alert", tasks[i].pc)
       ELSE IF tasks[i].incidents # <<>>
       THEN /\ tasks' = Suspend(i, "emit_incident", 0, <<>>, Tail(tasks[i].incidents))
            /\ ev' = Event("telemetry_publish", i, "incident", tasks[i].pc)
       ELSE /\ tasks' = Suspend(i, "sleep", now + TelemetryPeriod, <<>>, <<>>)
            /\ ev' = Event("telemetry_sleep", i, "none", tasks[i].pc)
    /\ UNCHANGED <<settings, now, is_session_active, update_task, weather_task, race_session,
                   sim, det, calls, sessionLog, out, ticks, fired>>

\* weather_update_loop at its loop condition (line 349): from the start of the
\* task, after the emit of the previous pass, or after the sleep of the except
\* branch
WeatherHead(i) ==
    /\ tasks[i].kind = "weather"
    /\ tasks[i].pc \in {"new", "emit_weather", "error_sleep"}
    /\ Resumable(i)
    /\ IF ~is_session_active
       THEN /\ tasks' = [tasks EXCEPT ![i] = FreeTask]
            /\ ev' = Event("weather_exit", i, "none", tasks[i].pc)
       ELSE /\ tasks' = Suspend(i, "sleep", now + WeatherSleep, <<>>, <<>>)
            /\ ev' = Event("weather_sleep", i, "none", tasks[i].pc)
    /\ UNCHANGED <<settings, now, is_session_active, update_task, weather_task, race_session,
                   sim, det, calls, sessionLog, out, ticks, fired>>

\* mutant: the generated zones are published but not stored in the session
WeatherTickPublishOnly(i) ==
    /\ tasks[i].kind = "weather"
    /\ tasks[i].pc = "sleep"
    /\ Resumable(i)
    /\ \E fail \in {"none", "generate", "publish"} : \E w \in WeatherDraws :
          IF fail # "none"
          THEN /\ tasks' = ErrorSleep(i, WeatherSleep)
               /\ ev' = Event("weather_error", i, "none", fail)
          ELSE /\ tasks' = Suspend(i, "emit_weather", 0, <<>>, <<>>)
               /\ ev' = Event("weather_tick", i, "weather_update",
                              generate_weather_data(w[1], w[2]))
    /\ UNCHANGED <<settings, now, is_session_active, update_task, weather_task, race_session,
                   sim, det, calls, sessionLog, out, ticks, fired>>

\* weather_update_loop after its sleep (lines 353-362): the result of the
\* event is the zone sequence handed to sio.emit
WeatherTick(i) ==
    /\ tasks[i].kind = "weather"
    /\ tasks[i].pc = "sleep"
    /\ Resumable(i)
    /\ \E fail \in {"none", "generate", "publish"} : \E w \in WeatherDraws :
          IF fail = "generate"
          THEN /\ tasks' = ErrorSleep(i, WeatherSleep)
               /\ ev' = Event("weather_error", i, "none", fail)
               /\ UNCHANGED race_session
          ELSE /\ race_session' = [race_session EXCEPT
                                      !.weather = generate_weather_data(w[1], w[2])]
               /\ IF fail = "publish"
                  THEN /\ tasks' = ErrorSleep(i, WeatherSleep)
                       /\ ev' = Event("weather_error", i, "none", fail)
                  ELSE /\ tasks' = Suspend(i, "emit_weather", 0, <<>>, <<>>)
                       /\ ev' = Event("weather_tick", i, "weather_update",
                                      generate_weather_data(w[1], w[2]))
    /\ UNCHANGED <<settings, now, is_session_active, update_task, weather_task, sim, det,
                   calls, sessionLog, out, ticks, fired>>

\* a cancelled task is resumed with CancelledError at its await (or before its
\* first step): the except CancelledError branch breaks out of the loop, and
\* from the sleep of the except Exception branch the error ends the task
TaskCancelled(i) ==
    /\ tasks[i].pc # "free"
    /\ tasks[i].cancel
    /\ tasks' = [tasks EXCEPT ![i] = FreeTask]
    /\ ev' = Event("task_cancelled", i, "none", tasks[i].pc)
    /\ UNCHANGED <<settings, now, is_session_active, update_task, weather_task, race_session,
                   sim, det, calls, sessionLog, out, ticks, fired>>

\* the clock
Advance(d) ==
    /\ NoCancelPending
    /\ now + d <= Epoch + MaxElapsed
    /\ now' = now + d
    /\ ev' = Event("advance", 0, "none", "none")
    /\ UNCHANGED <<settings, is_session_active, update_task, weather_task, race_session, sim,
                   det, tasks, calls, sessionLog, out, ticks, fired>>

Vias == {"rest", "sio"}

\* every interleaving of the handlers and the tasks at their awaits
Next ==
    \/ \E k \in CallIds : StartCall(k)
    \/ \E k \in CallIds : StopCall(k)
    \/ \E k \in CallIds : \E via \in Vias : ResetCall(k, via)
    \/ \E k \in CallIds : StartResume(k)
    \/ \E k \in CallIds : StopResume(k)
    \/ \E k \in CallIds : ResetResume(k)
    \/ \E i \in TaskIds : TelemetryTick(i)
    \/ \E i \in TaskIds : TelemetryResume(i)
    \/ \E i \in TaskIds : WeatherHead(i)
    \/ \E i \in TaskIds : WeatherTick(i)
    \/ \E i \in TaskIds : TaskCancelled(i)
    \/ \E d \in TimeSteps : Advance(d)

Spec == Init /\ [][Next]_vars

\* one controller that waits for each call to return before the next
NoCallInFlight == \A k \in CallIds : calls[k].pc = "idle"

SeqStartCall(k) == NoCallInFlight /\ StartCall(k)
SeqStopCall(k) == NoCallInFlight /\ StopCall(k)
SeqResetCall(k, via) == NoCallInFlight /\ ResetCall(k, via)

NextSeq ==
    \/ \E k \in CallIds : SeqStartCall(k)
    \/ \E k \in CallIds : SeqStopCall(k)
    \/ \E k \in CallIds : \E via \in Vias : SeqResetCall(k, via)
    \/ \E k \in CallIds : StartResume(k)
    \/ \E k \in CallIds : StopResume(k)
    \/ \E k \in CallIds : ResetResume(k)
    \/ \E i \in TaskIds : TelemetryTick(i)
    \/ \E i \in TaskIds : TelemetryResume(i)
    \/ \E i \in TaskIds : WeatherHead(i)
    \/ \E i \in TaskIds : WeatherTick(i)
    \/ \E i \in TaskIds : TaskCancelled(i)
    \/ \E d \in TimeSteps : Advance(d)

SpecSeq == Init /\ [][NextSeq]_vars

\* -------------------------------------------------- the detection engine
\* the detection engine on its own: process_detections on snapshots and zones
\* drawn from small sets, reset, and the passing of time
DetCar(speed, in_pit) ==
    [speed |-> speed, in_pit |-> in_pit, sector |-> 1, current_lap |-> 1, tire |-> "soft"]

\* car 1 slows from snapshot to snapshot along DetSpeeds, the others hold their
\* speed; in one more snapshot all cars are in the pit
DetSpeeds == {300, 130, 90, 62}
DetSnapshots ==
    {[c \in 1..NumDetCars |-> DetCar(IF c = 1 THEN v ELSE 200, FALSE)] : v \in DetSpeeds}
    \cup {[c \in 1..NumDetCars |-> DetCar(200, TRUE)]}
DetZones == {generate_weather_data(w[1], w[2]) : w \in WeatherDraws}
DryZones == generate_weather_data(1, [s \in SectorIds |-> 0])

\* the weather varies while the cars hold their speed
DetInputs ==
    {<<cars, DryZones>> : cars \in DetSnapshots}
    \cup {<<[c \in 1..NumDetCars |-> DetCar(200, FALSE)], zones>> : zones \in DetZones}

DetEvaluate(cars, zones) ==
    LET d == process_detections(cars, zones, det.previous_telemetry, det.alert_history, now)
    IN  /\ det' = [previous_telemetry |-> d.previous_telemetry,
                   alert_history |-> d.alert_history]
        /\ out' = Output(cars, zones, d)
        /\ fired' = Fired(fired, det.previous_telemetry, cars, zones, d.alerts, now)
        /\ ev' = Event("evaluate", 0, "none",
                       IF ev.result = "det_reset" THEN "first_after_reset" ELSE "none")
        /\ UNCHANGED <<settings, now, is_session_active, update_task, weather_task, race_session,
                       sim, tasks, calls, sessionLog, ticks>>

DetReset ==
    /\ det' = detection_reset
    /\ fired' = ClearFired(fired)
    /\ ev' = Event("det_reset", 0, "none", "det_reset")
    /\ UNCHANGED <<settings, now, is_session_active, update_task, weather_task, race_session,
                   sim, tasks, calls, sessionLog, out, ticks>>

\* time.time() moves on between two calls
DetAdvance(d) ==
    /\ now + d <= Epoch + MaxDetElapsed
    /\ now' = now + d
    /\ ev' = Event("advance", 0, "none", ev.result)
    /\ UNCHANGED <<settings, is_session_active, update_task, weather_task, race_session, sim,
                   det, tasks, calls, sessionLog, out, ticks, fired>>

NextDet ==
    \/ \E in \in DetInputs : DetEvaluate(in[1], in[2])
    \/ DetReset
    \/ \E d \in TimeSteps : DetAdvance(d)

SpecDet == Init /\ [][NextDet]_vars

\* ------------------------------------------------------ the detection rules
\* the rules of process_detections on a fresh engine: a first call that records
\* the snapshots, a second one on any snapshots, at once or after the cooldowns,
\* and a call that follows an incident
RuleSpeeds == {300, 250, 200, 150, 149, 140, 130, 100, 90, 40, 0}

\* car 1 has any of the speeds, in the pit or not; the first n of the other
\* cars are in the pit
RuleSnapshots ==
    {[c \in 1..NumRuleCars |->
        IF c = 1 THEN DetCar(v, p) ELSE DetCar(200, c - 1 <= n)] :
        v \in RuleSpeeds, p \in BOOLEAN, n \in 0..(NumRuleCars - 1)}

\* after an incident car 1 loses another 110 km/h, from 40 or from 0, or
\* holds its speed
FollowSnapshots ==
    {[c \in 1..NumRuleCars |-> IF c = 1 THEN DetCar(v, FALSE) ELSE DetCar(200, FALSE)] :
        v \in {-110, -70, 40}}

RuleGaps == {0, 2 * AlertCooldown + 1}

RuleCall(op, cars, zones, t) ==
    LET d == process_detections(cars, zones, det.previous_telemetry, det.alert_history, t)
    IN  /\ now' = t
        /\ det' = [previous_telemetry |-> d.previous_telemetry,
                   alert_history |-> d.alert_history]
        /\ out' = Output(cars, zones, d)
        /\ fired' = Fired(fired, det.previous_telemetry, cars, zones, d.alerts, t)
        /\ ev' = Event(op, 0, "none", "none")
        /\ UNCHANGED <<settings, is_session_active, update_task, weather_task, race_session,
                       sim, tasks, calls, sessionLog, ticks>>

RuleBaseline(cars) ==
    /\ ev.op = "init"
    /\ RuleCall("rule_baseline", cars, DryZones, now)

RuleEvaluate(cars, gap) ==
    /\ ev.op = "rule_baseline"
    /\ RuleCall("rule_evaluate", cars, DryZones, now + gap)

RuleFollow(cars) ==
    /\ ev.op = "rule_evaluate"
    /\ out.incidents # <<>>
    /\ RuleCall("rule_follow", cars, DryZones, now)

NextRules ==
    \/ \E cars \in RuleSnapshots : RuleBaseline(cars)
    \/ \E cars \in RuleSnapshots, gap \in RuleGaps : RuleEvaluate(cars, gap)
    \/ \E cars \in FollowSnapshots : RuleFollow(cars)

SpecRules == Init /\ [][NextRules]_vars

\* -------------------------------------------------------- the cooldown keys
\* three process_detections calls in a row on a fresh engine, the second and
\* the third at once or some time after the one before, on cars that slow down
\* or stand in the pit and on zones of any condition and grip
SteadyCars == [c \in 1..NumDetCars |-> DetCar(200, FALSE)]
SlowCars(slow) == [c \in 1..NumDetCars |-> DetCar(IF c \in slow THEN 90 ELSE 200, FALSE)]
PitCars == [c \in 1..NumDetCars |-> DetCar(200, TRUE)]
KeySnapshots == {SteadyCars, SlowCars({1}), SlowCars({2}), SlowCars({1, 2}), PitCars}

\* a WeatherZone as a caller of process_detections may pass it
Zone(sector, condition, grip) ==
    [sector_id |-> sector, condition |-> condition,
     rain_intensity |-> RainIntensity(condition), grip_level |-> grip]

\* sector 1: dry, wet, heavy rain, wet with grip left, damp with little grip;
\* sector 2: dry or heavy rain; sector 3: dry
Sector1Kinds == {<<"dry", 95>>, <<"wet", 50>>, <<"heavy_rain", 30>>, <<"wet", 70>>, <<"damp", 55>>}
Sector2Kinds == {<<"dry", 95>>, <<"heavy_rain", 30>>}
KeyZones ==
    {<<Zone(1, k1[1], k1[2]), Zone(2, k2[1], k2[2]), Zone(3, "dry", 95)>> :
        k1 \in Sector1Kinds, k2 \in Sector2Kinds}

KeyInputs ==
    {<<cars, DryZones>> : cars \in KeySnapshots}
    \cup {<<SteadyCars, zones>> : zones \in KeyZones}
    \cup {<<PitCars, <<Zone(1, "wet", 50), Zone(2, "dry", 95), Zone(3, "dry", 95)>>>>}

\* the time between two calls: none, one cooldown, two, and a little more
KeyGaps == {0, AlertCooldown, 2 * AlertCooldown, 2 * AlertCooldown + 1}

KeyFirst(in) ==
    /\ ev.op = "init"
    /\ RuleCall("key_first", in[1], in[2], now)

KeySecond(in, gap) ==
    /\ ev.op = "key_first"
    /\ RuleCall("key_second", in[1], in[2], now + gap)

KeyThird(in, gap) ==
    /\ ev.op = "key_second"
    /\ RuleCall("key_third", in[1], in[2], now + gap)

NextKeys ==
    \/ \E in \in KeyInputs : KeyFirst(in)
    \/ \E in \in KeyInputs, gap \in KeyGaps : KeySecond(in, gap)
    \/ \E in \in KeyInputs, gap \in KeyGaps : KeyThird(in, gap)

SpecKeys == Init /\ [][NextKeys]_vars

\* the same calls with time.time() at any value at the first of them: the
\* epoch itself, one and two cooldowns after it, a little more, or much later
FirstTimes == {0, AlertCooldown, 2 * AlertCooldown, 2 * AlertCooldown + 1, Epoch}

InitFirst ==
    /\ settings = DefaultSettings
    /\ now \in FirstTimes
    /\ is_session_active = FALSE
    /\ update_task = 0
    /\ weather_task = 0
    /\ race_session = [session_status |-> "not_started", current_lap |-> 1,
                       session_time |-> 0, weather |-> DryZones]
    /\ \E speeds \in InitSpeedDraws : sim = SimInit(speeds, now)
    /\ det = DetInit
    /\ tasks = [i \in TaskIds |-> FreeTask]
    /\ calls = [k \in CallIds |-> IdleCall]
    /\ sessionLog = <<>>
    /\ out = NoOutput
    /\ ticks = 0
    /\ fired = EmptyMap
    /\ ev = Event("init", 0, "none", "none")

SpecFirst == InitFirst /\ [][NextKeys]_vars

\* ------------------------------------------------------ the simulator alone
\* update_telemetry and reset on the simulator, from its state at construction
\* and from states in which the cars are somewhere on the lap at some speed
SpeedSamples == {MIN_SPEED, 600, 800, 3300, MAX_SPEED}

\* the start line, the end of sector 1 (target speed below 50), the middle of
\* sector 2, the start of sector 3 and the last metres of the lap
ProgressSamples ==
    {0, (95 * Third) \div 100, Third + Third \div 2, 2 * Third + 10, ProgressUnits - 1000}

SimSample(p, v) ==
    [cars |-> [c \in Cars |-> CarState(p, v, Epoch)],
     current_lap |-> 1, session_start_time |-> Epoch]

InitSim ==
    /\ settings = DefaultSettings
    /\ now = Epoch
    /\ is_session_active = FALSE
    /\ update_task = 0
    /\ weather_task = 0
    /\ race_session = [session_status |-> "not_started", current_lap |-> 1,
                       session_time |-> 0, weather |-> DryZones]
    /\ \/ \E speeds \in InitSpeedDraws : sim = SimInit(speeds, Epoch)
       \/ \E p \in ProgressSamples, v \in SpeedSamples : sim = SimSample(p, v)
    /\ det = DetInit
    /\ tasks = [i \in TaskIds |-> FreeTask]
    /\ calls = [k \in CallIds |-> IdleCall]
    /\ sessionLog = <<>>
    /\ out = NoOutput
    /\ ticks = 0
    /\ fired = EmptyMap
    /\ ev = Event("init", 0, "none", "none")

\* a second, a cooldown, or a long pause between two calls
SimSteps == {TicksPerSecond, AlertCooldown, LongPause}

SimTick(draws) ==
    /\ ticks < MaxTicks
    /\ LET r == update_telemetry(sim.cars, sim.current_lap, now, draws)
       IN  /\ sim' = [sim EXCEPT !.cars = r.cars, !.current_lap = r.current_lap]
           /\ out' = [NoOutput EXCEPT !.cars = r.telemetry]
    /\ ticks' = ticks + 1
    /\ ev' = Event("sim_tick", 0, "none", "none")
    /\ UNCHANGED <<settings, now, is_session_active, update_task, weather_task, race_session,
                   det, tasks, calls, sessionLog, fired>>

SimReset ==
    /\ ev.op = "sim_tick"
    /\ \E speeds \in InitSpeedDraws : sim' = SimInit(speeds, now)
    /\ ev' = Event("sim_reset", 0, "none", "none")
    /\ UNCHANGED <<settings, now, is_session_active, update_task, weather_task, race_session,
                   det, tasks, calls, sessionLog, out, ticks, fired>>

SimAdvance(d) ==
    /\ ev.op # "sim_advance"
    /\ now' = now + d
    /\ ev' = Event("sim_advance", 0, "none", "none")
    /\ UNCHANGED <<settings, is_session_active, update_task, weather_task, race_session, sim,
                   det, tasks, calls, sessionLog, out, ticks, fired>>

NextSim ==
    \/ \E draws \in TickDraws : SimTick(draws)
    \/ SimReset
    \/ \E d \in SimSteps : SimAdvance(d)

SpecSim == InitSim /\ [][NextSim]_vars

\* --------------------------------------------------- the weather generator
\* generate_weather_data on every outcome of its draws, stored as the session's
\* weather as a weather tick does, and process_detections on the result
AllWeatherDraws ==
    {<<base, dev>> : base \in 1..Len(GeneratedConditions),
                     dev \in [SectorIds -> 0..Len(GeneratedConditions)]}

GenerateWeather(w) ==
    /\ ev.op \in {"init", "weather_detect"}
    /\ race_session' = [race_session EXCEPT !.weather = generate_weather_data(w[1], w[2])]
    /\ ev' = Event("weather_generate", 0, "none", "none")
    /\ UNCHANGED <<settings, now, is_session_active, update_task, weather_task, sim, det,
                   tasks, calls, sessionLog, out, ticks, fired>>

WeatherDetect ==
    /\ ev.op = "weather_generate"
    /\ RuleCall("weather_detect", SteadyCars, race_session.weather, now)

NextWeather ==
    \/ \E w \in AllWeatherDraws : GenerateWeather(w)
    \/ WeatherDetect

SpecWeather == Init /\ [][NextWeather]_vars

\* ------------------------------------------------------------ the pit stops
\* update_telemetry once per telemetry period, car 1 drawing a pit stop or not
\* on every call. The result of the event counts, per car, the snapshots in a
\* row that reported it in the pit (run) and the runs that have ended (done)
PitDraws ==
    {[c \in Cars |-> [jitter |-> -100, pit |-> c \in drawn]] : drawn \in {{}, {1}}}

PitRun(c) == IF ev.op = "pit_tick" THEN ev.result.run[c] ELSE 0
PitDone(c) == IF ev.op = "pit_tick" THEN ev.result.done[c] ELSE 0

PitTick(draws) ==
    /\ ticks < MaxPitTicks
    /\ now' = now + TelemetrySleep
    /\ LET r == update_telemetry(sim.cars, sim.current_lap, now', draws)
       IN  /\ sim' = [sim EXCEPT !.cars = r.cars, !.current_lap = r.current_lap]
           /\ out' = [NoOutput EXCEPT !.cars = r.telemetry]
           /\ ev' = Event("pit_tick", 0, "none",
                     [run |-> [c \in Cars |-> IF r.telemetry[c].in_pit THEN PitRun(c) + 1 ELSE 0],
                      done |-> [c \in Cars |->
                                  IF ~r.telemetry[c].in_pit /\ PitRun(c) > 0
                                  THEN PitDone(c) + 1 ELSE PitDone(c)]])
    /\ ticks' = ticks + 1
    /\ UNCHANGED <<settings, is_session_active, update_task, weather_task, race_session,
                   det, tasks, calls, sessionLog, fired>>

NextPit == \E draws \in PitDraws : PitTick(draws)

SpecPit == Init /\ [][NextPit]_vars

\* ------------------------------------------- the simulator and the engine
\* what a telemetry tick does to the simulator and the detection engine
\* (update_telemetry, then process_detections on its snapshots), one telemetry
\* period after the other, and what a reset does to both; from the state at
\* construction and from states in which the cars are somewhere on the lap at
\* some speed and the engine holds the snapshots of those states

\* the CarTelemetry of a CarState as update_telemetry reports it
SnapshotOf(car) ==
    [speed |-> RoundTenths(car.speed), in_pit |-> FALSE,
     sector |-> get_sector_from_progress(car.track_progress),
     current_lap |-> IntLaps(car.track_progress) + 1,
     tire |-> TireFor(IntLaps(car.track_progress) + 1)]

InitDrive ==
    /\ settings = DefaultSettings
    /\ now = Epoch
    /\ is_session_active = FALSE
    /\ update_task = 0
    /\ weather_task = 0
    /\ race_session = [session_status |-> "not_started", current_lap |-> 1,
                       session_time |-> 0, weather |-> DryZones]
    /\ \/ /\ \E speeds \in InitSpeedDraws : sim = SimInit(speeds, Epoch)
          /\ det = DetInit
       \/ \E p \in ProgressSamples, v \in SpeedSamples :
             /\ sim = SimSample(p, v)
             /\ det = [previous_telemetry |-> [c \in Cars |-> SnapshotOf(sim.cars[c])],
                       alert_history |-> EmptyMap]
    /\ tasks = [i \in TaskIds |-> FreeTask]
    /\ calls = [k \in CallIds |-> IdleCall]
    /\ sessionLog = <<>>
    /\ out = NoOutput
    /\ ticks = 0
    /\ fired = EmptyMap
    /\ ev = Event("init", 0, "none", "none")

\* lines 297-309 of telemetry_update_loop, one telemetry period after the
\* last pass; the result of the event is what the engine had stored of the
\* cars when the pass began
DriveTick(draws) ==
    /\ ticks < MaxDriveTicks
    /\ now' = now + TelemetrySleep
    /\ LET r == update_telemetry(sim.cars, sim.current_lap, now', draws)
           d == process_detections(r.telemetry, race_session.weather,
                                   det.previous_telemetry, det.alert_history, now')
       IN  /\ sim' = [sim EXCEPT !.cars = r.cars, !.current_lap = r.current_lap]
           /\ race_session' = [race_session EXCEPT
                                  !.current_lap = r.current_lap,
                                  !.session_time = SessionTime(now')]
           /\ det' = [previous_telemetry |-> d.previous_telemetry,
                      alert_history |-> d.alert_history]
           /\ out' = Output(r.telemetry, race_session.weather, d)
           /\ fired' = Fired(fired, det.previous_telemetry, r.telemetry,
                              race_session.weather, d.alerts, now')
    /\ ticks' = ticks + 1
    /\ ev' = Event("drive_tick", 0, "none", det.previous_telemetry)
    /\ UNCHANGED <<settings, is_session_active, update_task, weather_task, tasks, calls,
                   sessionLog>>

\* the reset of both services, lines 169-170 and 223-224 of server.py
DriveReset ==
    /\ ev.op = "drive_tick"
    /\ ResetTail("sio", race_session)
    /\ ev' = Event("drive_reset", 0, "none", "none")
    /\ UNCHANGED <<settings, now, is_session_active, update_task, weather_task, tasks, calls,
                   sessionLog, out, ticks>>

NextDrive ==
    \/ \E draws \in TickDraws : DriveTick(draws)
    \/ DriveReset

SpecDrive == InitDrive /\ [][NextDrive]_vars

\* ------------------------------------------------- the sector of a progress
\* _get_sector_from_progress on progress values on both sides of every track
\* point boundary, on the values nearest to 0, and on each of them plus k
SectorInputs ==
    {<<(i * ProgressUnits) \div NumTrackPoints + d, 0>> :
        i \in 0..(NumTrackPoints - 1), d \in {0, 1}}
    \cup {<<0, -1>>, <<0, 1>>}

Shifts == (-MaxShift)..MaxShift

SectorAt(p, sub, k) ==
    LET q == FloatShift(p, sub, k)
    IN  /\ ev.op = "init"
        /\ out' = [progress |-> <<p, sub>>, shift |-> k,
                   index |-> FloatIndex(p, sub),
                   sector |-> FloatSector(p, sub),
                   shifted_index |-> FloatIndex(q.p, q.sub),
                   shifted_sector |-> FloatSector(q.p, q.sub)]
        /\ ev' = Event("sector_at", 0, "none", "none")
        /\ UNCHANGED <<settings, now, is_session_active, update_task, weather_task, race_session,
                       sim, det, tasks, calls, sessionLog, ticks, fired>>

NextSector == \E in \in SectorInputs, k \in Shifts : SectorAt(in[1], in[2], k)

SpecSector == Init /\ [][NextSector]_vars

\* ------------------------------------------------------ the configuration
\* the server under any UPDATE_FREQUENCY the environment may give: the
\* default, 0 and a negative one; one controller starts and stops the session
ConfigPeriods == {-TelemetrySleep, 0, TelemetrySleep}

InitConfig ==
    /\ settings \in {[UPDATE_FREQUENCY |-> f] : f \in ConfigPeriods}
    /\ now = Epoch
    /\ is_session_active = FALSE
    /\ update_task = 0
    /\ weather_task = 0
    /\ race_session = [session_status |-> "not_started", current_lap |-> 1,
                       session_time |-> 0, weather |-> DryZones]
    /\ \E speeds \in InitSpeedDraws : sim = SimInit(speeds, Epoch)
    /\ det = DetInit
    /\ tasks = [i \in TaskIds |-> FreeTask]
    /\ calls = [k \in CallIds |-> IdleCall]
    /\ sessionLog = <<>>
    /\ out = NoOutput
    /\ ticks = 0
    /\ fired = EmptyMap
    /\ ev = Event("init", 0, "none", "none")

NextConfig ==
    \/ \E k \in CallIds : SeqStartCall(k)
    \/ \E k \in CallIds : SeqStopCall(k)
    \/ \E k \in CallIds : StartResume(k)
    \/ \E k \in CallIds : StopResume(k)
    \/ \E i \in TaskIds : TelemetryCrash(i)
    \/ \E i \in TaskIds : TelemetryTick(i)
    \/ \E i \in TaskIds : TelemetryResume(i)
    \/ \E i \in TaskIds : WeatherHead(i)
    \/ \E i \in TaskIds : WeatherTick(i)
    \/ \E i \in TaskIds : TaskCancelled(i)
    \/ \E d \in TimeSteps : Advance(d)

SpecConfig == InitConfig /\ [][NextConfig]_vars

\* ------------------------------------------------------- concurrent calls
\* control calls that overlap at their awaits, and the steps of the tasks they
\* create, at one instant of the clock: a task that reaches a sleep stays there
NextRace ==
    \/ \E k \in CallIds : StartCall(k)
    \/ \E k \in CallIds : StopCall(k)
    \/ \E k \in CallIds : \E via \in Vias : ResetCall(k, via)
    \/ \E k \in CallIds : StartResume(k)
    \/ \E k \in CallIds : StopResume(k)
    \/ \E k \in CallIds : ResetResume(k)
    \/ \E i \in TaskIds : TelemetryTick(i)
    \/ \E i \in TaskIds : TelemetryResume(i)
    \/ \E i \in TaskIds : WeatherHead(i)
    \/ \E i \in TaskIds : TaskCancelled(i)

SpecRace == Init /\ [][NextRace]_vars

\* the start, stop, start script of one controller, no other call
Script == <<"in_progress", "paused", "in_progress">>

ScriptStart(k) == NoCallInFlight /\ Len(sessionLog) \in {0, 2} /\ StartCall(k)
ScriptStop(k) == NoCallInFlight /\ Len(sessionLog) = 1 /\ StopCall(k)

NextScript ==
    \/ \E k \in CallIds : ScriptStart(k)
    \/ \E k \in CallIds : ScriptStop(k)
    \/ \E k \in CallIds : StartResume(k)
    \/ \E k \in CallIds : StopResume(k)
    \/ \E i \in TaskIds : TelemetryTick(i)
    \/ \E i \in TaskIds : TelemetryResume(i)
    \/ \E i \in TaskIds : WeatherHead(i)
    \/ \E i \in TaskIds : WeatherTick(i)
    \/ \E i \in TaskIds : TaskCancelled(i)
    \/ \E d \in TimeSteps : Advance(d)

SpecScript == Init /\ [][NextScript]_vars

\* ------------------------------------------------------------------ claims
Status == race_session.session_status

\* the steps in which a periodic task runs part of a pass of its loop
TaskWorkOps == {"telemetry_tick", "telemetry_error", "telemetry_publish",
                "telemetry_sleep", "weather_tick", "weather_error", "weather_sleep"}

EmitPcs == {"emit_telemetry", "emit_alert", "emit_incident"}

\* C1: start is accepted whenever the session is not_started or paused; it
\* sets the status to in_progress and marks the session active, and when it
\* returns exactly one telemetry task and exactly one weather task are live,
\* the ones app_state refers to.
C1_StartStartsBothTasks ==
    /\ ev.op = "start_rejected" => Status = "in_progress"
    /\ ev.op = "start_call" => Status = "in_progress" /\ is_session_active
    /\ ev.op = "start_done" =>
          /\ Status = "in_progress"
          /\ is_session_active
          /\ LiveOf("telemetry") = {update_task}
          /\ LiveOf("weather") = {weather_task}

\* a start from paused has returned
C1_Witness ==
    /\ ev.op = "start_done"
    /\ sessionLog = <<"in_progress", "paused", "in_progress">>

\* C2: stop is accepted whenever the session is in_progress; it sets the
\* status to paused and cancels both tasks, and while the session is paused no
\* task is live and no step of a pass of either loop is taken.
C2_StopCancelsBothTasks ==
    /\ ev.op = "stop_rejected" => Status # "in_progress"
    /\ ev.op = "stop_call" => Status = "paused" /\ ~is_session_active
    /\ Status = "paused" =>
          /\ \A i \in TaskIds : ~Live(i)
          /\ ev.op \notin TaskWorkOps

\* the clock has moved on after a stop that interrupted ticking tasks
C2_Witness ==
    /\ Status = "paused"
    /\ NoCallInFlight
    /\ ticks > 0
    /\ ev.op = "advance"

\* C3: a start while in_progress and a stop while not_started return the
\* failure outcome, publish nothing and change neither the session nor the
\* tasks.
C3_OutOfTurnIsNoOp ==
    [][(\/ Status = "in_progress" /\ ev'.op \in {"start_call", "start_rejected"}
        \/ Status = "not_started" /\ ev'.op \in {"stop_call", "stop_rejected"})
       => /\ ev'.result = "false"
          /\ ev'.topic = "none"
          /\ UNCHANGED <<settings, is_session_active, update_task, weather_task, race_session,
                         sim, det, tasks, calls, sessionLog>>]_vars

\* a start was refused while the tasks of the running session were ticking
C3_Witness ==
    /\ ev.op = "start_rejected"
    /\ Status = "in_progress"
    /\ ticks > 0

\* C4: when a reset returns, by either path, the status is not_started, no
\* task is live, the session's lap is 1 and its elapsed time 0, and the
\* simulator and the detection engine are as constructed.
C4_ResetReturnsToNotStarted ==
    ev.op = "reset_done" =>
        /\ Status = "not_started"
        /\ ~is_session_active
        /\ \A i \in TaskIds : ~Live(i)
        /\ race_session.current_lap = 1
        /\ race_session.session_time = 0
        /\ sim.current_lap = 1
        /\ \A c \in Cars : sim.cars[c].track_progress = -GRID_GAP * (c - 1)
        /\ det = DetInit

\* C5: once a transition has completed, the status of the last session_update
\* published is the status of the session.
C5_LastUpdateMatchesStatus ==
    (NoCallInFlight /\ sessionLog # <<>>) => sessionLog[Len(sessionLog)] = Status

\* C6: for start, stop, start the statuses published are in_progress, paused,
\* in_progress in that order; after the second start exactly one telemetry and
\* one weather task are live, and only the tasks app_state refers to ever run.
C6_StartStopStart ==
    /\ \A j \in 1..Len(sessionLog) : sessionLog[j] = Script[j]
    /\ (Len(sessionLog) = 3 /\ NoCallInFlight) =>
          /\ is_session_active
          /\ LiveOf("telemetry") = {update_task}
          /\ LiveOf("weather") = {weather_task}
    /\ ev.op \in TaskWorkOps => is_session_active /\ ev.id \in {update_task, weather_task}

\* the telemetry task of the second start has run a pass, after one of the first
C6_Witness ==
    /\ sessionLog = Script
    /\ ev.op = "telemetry_tick"
    /\ ticks = 2

\* C7: a telemetry task never ends while messages of its current pass are
\* still to be published.
C7_NoHalfAppliedTick ==
    [][\A i \in TaskIds :
          (/\ tasks[i].kind = "telemetry"
           /\ tasks[i].pc \in EmitPcs
           /\ tasks[i].alerts # <<>> \/ tasks[i].incidents # <<>>)
          => tasks'[i].pc # "free"]_vars

C9_CooldownGating ==
    [][ev'.op = "evaluate" =>
        \A key \in DOMAIN fired :
            Recorded(key) =>
                LET hit == key \in GatedKeys(out'.alerts)
                    cond == KeyCondition(key, det.previous_telemetry, out'.cars, out'.zones)
                IN  /\ det.alert_history[key] = fired[key].at
                    /\ now - fired[key].at <= Cooldown(key) => ~hit
                    /\ (now - fired[key].at > Cooldown(key) /\ cond) => hit
                    /\ hit => det'.alert_history[key] = now
                    /\ ~hit => det'.alert_history[key] = det.alert_history[key]]_vars

\* the slowdown of car 1 fired, was suppressed while it went on, the last time
\* exactly one cooldown after the firing, and fired again once the cooldown was over
C9_Witness ==
    /\ ev.op = "evaluate"
    /\ SlowdownKey(1) \in DOMAIN fired
    /\ fired[SlowdownKey(1)].streak = 2
    /\ fired[SlowdownKey(1)].at = now
    /\ out.cars[1].speed = 62

\* C10: reset leaves both maps empty; at an evaluation after it a key whose
\* firing it cleared gets an alert as soon as its condition holds; the first
\* evaluation after it returns no slowdown alert and no incident.
C10_ResetClearsDetection ==
    [][/\ ev'.op = "det_reset" =>
             det'.previous_telemetry = EmptyMap /\ det'.alert_history = EmptyMap
       /\ ev'.op = "evaluate" =>
             \A key \in DOMAIN fired :
                 (/\ fired[key].cleared
                  /\ KeyCondition(key, det.previous_telemetry, out'.cars, out'.zones))
                 => key \in GatedKeys(out'.alerts)
       /\ (ev.result = "det_reset" /\ ev'.op = "evaluate") =>
             /\ out'.incidents = <<>>
             /\ \A j \in 1..Len(out'.alerts) :
                   out'.alerts[j].type \notin {"slowdown", "incident"}]_vars

\* pit congestion was being suppressed, the engine was reset, and the first
\* evaluation after the reset, still within the cooldown, returned the alert
C10_Witness ==
    /\ ev.op = "evaluate"
    /\ ev.result = "first_after_reset"
    /\ PitKey \in DOMAIN fired
    /\ fired[PitKey].revived
    /\ fired[PitKey].at = now

\* the alerts of a call, of one type, for one car (0: for no car)
AlertsOf(alerts, type, car) ==
    {j \in 1..Len(alerts) : alerts[j].type = type /\ alerts[j].car_id = car}

\* a key the engine holds no firing of within the cooldown, at time t
NotInCooldown(key, cooldown, t) ==
    key \notin DOMAIN det.alert_history \/ t - det.alert_history[key] > cooldown

\* C11: at a call with the slowdown key of a car not in cooldown, one slowdown
\* alert is returned for the car if it has a previous snapshot, has lost more
\* than 30% of its previous speed, is below 150 and is not in the pit, and none
\* otherwise; the alert is critical if it lost more than 50%, else a warning.
C11_SlowdownRule ==
    [][ev'.op \in {"rule_baseline", "rule_evaluate", "rule_follow"} =>
        \A c \in 1..Len(out'.cars) :
            NotInCooldown(SlowdownKey(c), AlertCooldown, now') =>
                LET cur == out'.cars[c]
                    prev == det.previous_telemetry
                    found == AlertsOf(out'.alerts, "slowdown", c)
                    dropped == /\ c \in DOMAIN prev
                               /\ prev[c].speed > 0
                               /\ 100 * (prev[c].speed - cur.speed) > 30 * prev[c].speed
                               /\ cur.speed < 150
                               /\ ~cur.in_pit
                IN  /\ dropped => Cardinality(found) = 1
                    /\ ~dropped => found = {}
                    /\ \A j \in found :
                          out'.alerts[j].severity =
                              IF 100 * (prev[c].speed - cur.speed) > 50 * prev[c].speed
                              THEN "critical" ELSE "warning"]_vars

\* 200 to 130 returned a warning for car 1
C11_Witness ==
    /\ ev.op = "rule_evaluate"
    /\ out.cars[1].speed = 130
    /\ \E j \in AlertsOf(out.alerts, "slowdown", 1) : out.alerts[j].severity = "warning"
    /\ fired[SlowdownKey(1)].at = now

\* C12: at a call with the pit_congestion key not in cooldown, one
\* pit-congestion alert is returned if at least 3 cars of the snapshots are in
\* the pit, critical if at least 5 are and a warning for 3 or 4, and none if 2
\* or fewer are.
C12_PitCongestionRule ==
    [][ev'.op \in {"rule_baseline", "rule_evaluate", "rule_follow"} =>
        (NotInCooldown(PitKey, AlertCooldown, now') =>
            LET n == Cardinality({c \in 1..Len(out'.cars) : out'.cars[c].in_pit})
                found == AlertsOf(out'.alerts, "pit_congestion", 0)
            IN  /\ n >= 3 => Cardinality(found) = 1
                /\ n <= 2 => found = {}
                /\ \A j \in found :
                      out'.alerts[j].severity = IF n >= 5 THEN "critical" ELSE "warning")]_vars

\* exactly 3 cars in the pit returned a warning
C12_Witness ==
    /\ ev.op = "rule_evaluate"
    /\ Cardinality({c \in 1..Len(out.cars) : out.cars[c].in_pit}) = 3
    /\ \E j \in AlertsOf(out.alerts, "pit_congestion", 0) : out.alerts[j].severity = "warning"

\* C13: at every call, a car with a previous snapshot that has lost more than
\* 100 km/h, is below 50 and is not in the pit gets exactly one incident, of
\* type slowdown and severity high, and exactly one critical incident alert,
\* whatever the engine holds of earlier firings.
C13_IncidentRule ==
    [][ev'.op \in {"rule_baseline", "rule_evaluate", "rule_follow"} =>
        \A c \in 1..Len(out'.cars) :
            LET cur == out'.cars[c]
                prev == det.previous_telemetry
                incidents == {j \in 1..Len(out'.incidents) : out'.incidents[j].car_id = c}
                found == AlertsOf(out'.alerts, "incident", c)
            IN  (/\ c \in DOMAIN prev
                 /\ prev[c].speed - cur.speed > 100
                 /\ cur.speed < 50
                 /\ ~cur.in_pit)
                => /\ Cardinality(incidents) = 1
                   /\ \A j \in incidents :
                         /\ out'.incidents[j].severity = "high"
                         /\ out'.incidents[j].type = "slowdown"
                   /\ Cardinality(found) = 1
                   /\ \A j \in found : out'.alerts[j].severity = "critical"]_vars

\* car 1 had an incident on two calls in a row, the second one while its
\* slowdown alert was in cooldown
C13_Witness ==
    /\ ev.op = "rule_follow"
    /\ out.cars[1].speed = -70
    /\ Len(out.incidents) = 1
    /\ AlertsOf(out.alerts, "incident", 1) # {}
    /\ AlertsOf(out.alerts, "slowdown", 1) = {}
    /\ fired[SlowdownKey(1)].suppressed

\* C14: after a call of update_telemetry every car's speed is between 50 and
\* 340 km/h and is at most 15 km/h from its speed before the call, and the
\* speed reported is between 50 and 340.
C14_SpeedBounds ==
    [][ev'.op = "sim_tick" =>
        \A c \in Cars :
            /\ sim'.cars[c].speed >= 500
            /\ sim'.cars[c].speed <= 3400
            /\ sim'.cars[c].speed - sim.cars[c].speed <= 150
            /\ sim.cars[c].speed - sim'.cars[c].speed <= 150
            /\ out'.cars[c].speed >= 50
            /\ out'.cars[c].speed <= 340]_vars

\* at the end of sector 1, where the target speed is below 50, a car was held
\* at 50 km/h over two calls
C14_Witness ==
    /\ ev.op = "sim_tick"
    /\ ticks = 2
    /\ sim.cars[1].speed = 500
    /\ get_sector_from_progress(sim.cars[1].track_progress) = 1
    /\ TargetSpeed(1, sim.cars[1].track_progress % Third) + 100 < 500

\* C15: every car's track progress is at least 0 and below one lap.
C15_ProgressInUnitInterval ==
    \A c \in Cars :
        /\ sim.cars[c].track_progress >= 0
        /\ sim.cars[c].track_progress < ProgressUnits

\* C16: the sector of a progress is the sector of the progress plus any
\* integer, and it is read from a track point of index 0..N-1, never taken
\* from the fallback.
C16_SectorPeriodic ==
    ev.op = "sector_at" =>
        /\ out.shifted_sector = out.sector
        /\ out.index \in 0..(NumTrackPoints - 1)
        /\ out.shifted_index \in 0..(NumTrackPoints - 1)

\* C17: under a telemetry period of 0 or less the session is never started and
\* no periodic task is ever created.
C17_InvalidConfigRejected ==
    settings.UPDATE_FREQUENCY <= 0 =>
        /\ Status = "not_started"
        /\ ~is_session_active
        /\ sessionLog = <<>>
        /\ \A i \in TaskIds : tasks[i].pc = "free"

\* C18: a reset called while the session is not_started publishes nothing and
\* leaves the session, the vehicle states and the detection state as they were.
C18_ResetNotStartedNoOp ==
    [][(Status = "not_started" /\ ~is_session_active /\ ev'.op = "reset_done")
          => /\ sessionLog' = sessionLog
             /\ race_session' = race_session
             /\ sim'.cars = sim.cars
             /\ det' = det]_vars

\* C19: whatever the interleaving of the control calls, at most one telemetry
\* task and at most one weather task is live.
C19_SingleTaskPerKind ==
    /\ Cardinality(LiveOf("telemetry")) <= 1
    /\ Cardinality(LiveOf("weather")) <= 1

\* the steps of a telemetry pass and of a weather pass that reach their writes
TelemetryTickOps == {"telemetry_tick", "telemetry_error"}
WeatherTickOps == {"weather_tick", "weather_error"}
StartStopOps == {"start_call", "start_rejected", "start_done",
                 "stop_call", "stop_rejected", "stop_done"}
NoTaskRunning == \A i \in TaskIds : tasks[i].pc = "free"

LapTimeUnchanged ==
    /\ race_session'.current_lap = race_session.current_lap
    /\ race_session'.session_time = race_session.session_time
WeatherUnchanged == race_session'.weather = race_session.weather
SessionDataUnchanged ==
    /\ LapTimeUnchanged
    /\ WeatherUnchanged
    /\ sim'.cars = sim.cars
    /\ det' = det

\* C20 as stated: lap and elapsed time are written only by a telemetry tick,
\* the weather only by a weather tick; start and stop leave lap, time, weather,
\* vehicle states and detection state unchanged, and none of them changes
\* while no task is running.
C20_OnlyTicksWrite ==
    [][/\ ~LapTimeUnchanged => ev'.op \in TelemetryTickOps
       /\ ~WeatherUnchanged => ev'.op \in WeatherTickOps
       /\ ev'.op \in StartStopOps => SessionDataUnchanged
       /\ NoTaskRunning => SessionDataUnchanged]_vars

\* C20 amended: lap and elapsed time are written only by a telemetry tick or
\* by a reset over REST, the weather only by a weather tick; start and stop
\* leave lap, time, weather, vehicle states and detection state unchanged, and
\* while no task is running only a reset changes any of them.
C20_OnlyTicksAndResetWrite ==
    [][/\ ~LapTimeUnchanged =>
             \/ ev'.op \in TelemetryTickOps
             \/ ev'.op = "reset_done" /\ ev'.result = "rest"
       /\ ~WeatherUnchanged => ev'.op \in WeatherTickOps
       /\ ev'.op \in StartStopOps => SessionDataUnchanged
       /\ (NoTaskRunning /\ ev'.op # "reset_done") => SessionDataUnchanged]_vars

\* a stop has acted on a session whose ticks had advanced the elapsed time
C20_Witness ==
    /\ ev.op = "stop_call"
    /\ race_session.session_time > 0
    /\ ticks > 0

\* the alerts and incidents of a telemetry task that its pass has not yet
\* handed to sio.emit
Pending(i) == Len(tasks[i].alerts) + Len(tasks[i].incidents)

OneZonePerSector(zones) ==
    /\ DOMAIN zones = SectorIds
    /\ \A s \in SectorIds : zones[s].sector_id = s

\* C22: a weather tick stores a newly generated zone sequence, one zone per
\* sector, as the session's weather and publishes one weather_update carrying
\* that sequence; a telemetry tick evaluates detection against the sequence
\* the session holds, which only a weather tick replaces.
C22_WeatherReplacedWholesale ==
    [][/\ ev'.op = "weather_tick" =>
             /\ ev'.topic = "weather_update"
             /\ ev'.result \in DetZones
             /\ OneZonePerSector(ev'.result)
             /\ race_session'.weather = ev'.result
       /\ ev'.op \in TelemetryTickOps /\ ev'.result # "simulate" =>
             out'.zones = race_session.weather
       /\ race_session'.weather # race_session.weather => ev'.op \in WeatherTickOps]_vars

\* a telemetry tick has run after a weather tick that changed the weather, and
\* has evaluated detection against the new sequence
C22_Witness ==
    /\ ev.op = "telemetry_tick"
    /\ \E i \in TaskIds : tasks[i].kind = "weather" /\ tasks[i].pc = "emit_weather"
    /\ out.zones = race_session.weather
    /\ race_session.weather # DryZones
    /\ out.alerts # <<>>

KeyOps == {"key_first", "key_second", "key_third"}

\* every key a rule of process_detections is gated by
AllKeys ==
    {SlowdownKey(c) : c \in 1..NumDetCars} \cup {PitKey}
    \cup {WeatherKey(s) : s \in SectorIds} \cup {GripKey(s) : s \in SectorIds}

\* C23: at an evaluation, a key with no recorded firing whose condition holds
\* gets its alert, whatever the time of the evaluation.
C23_UnrecordedKeyFires ==
    [][ev'.op \in KeyOps =>
          \A key \in AllKeys :
              (/\ key \notin DOMAIN det.alert_history
               /\ KeyCondition(key, det.previous_telemetry, out'.cars, out'.zones))
              => key \in GatedKeys(out'.alerts)]_vars

\* the cooldown of a key is over at time t: no firing recorded, or one longer
\* ago than the cooldown
OwnCooldownOver(key, t) ==
    key \in DOMAIN det.alert_history => t - det.alert_history[key] > Cooldown(key)

\* C24: at an evaluation every key whose own condition holds and whose own
\* cooldown is over gets its alert, whatever the other keys did, and the
\* recorded time of a key moves only when that key fires.
C24_CooldownPerKey ==
    [][ev'.op \in KeyOps =>
          \A key \in AllKeys :
              LET hit == key \in GatedKeys(out'.alerts)
                  cond == KeyCondition(key, det.previous_telemetry, out'.cars, out'.zones)
              IN  /\ hit <=> (cond /\ OwnCooldownOver(key, now'))
                  /\ ~hit => Get(det'.alert_history, key, -1) = Get(det.alert_history, key, -1)
                  /\ hit => det'.alert_history[key] = now']_vars

\* the slowdown of car 2 fired one cooldown after the one of car 1, which was
\* still in its cooldown
C24_Witness ==
    /\ ev.op \in KeyOps
    /\ SlowdownKey(2) \in GatedKeys(out.alerts)
    /\ SlowdownKey(1) \in DOMAIN det.alert_history
    /\ SlowdownKey(1) \notin GatedKeys(out.alerts)
    /\ now - det.alert_history[SlowdownKey(1)] = AlertCooldown

\* the adverse-condition alerts and the low-grip alerts of a sector among alerts
AdverseOf(alerts, s) ==
    {j \in 1..Len(alerts) :
        alerts[j].type = "weather" /\ alerts[j].severity # "info" /\ alerts[j].sector = s}
GripOf(alerts, s) ==
    {j \in 1..Len(alerts) :
        alerts[j].type = "weather" /\ alerts[j].severity = "info" /\ alerts[j].sector = s}

\* a firing of the key is recorded at most two base cooldowns before time t
WithinTwoCooldowns(key, t) ==
    key \in DOMAIN det.alert_history /\ t - det.alert_history[key] <= 2 * AlertCooldown

\* C25: at an evaluation a zone that is wet or in heavy rain and whose
\* weather_sector key is not within two base cooldowns of its last firing gets
\* one adverse-condition alert, CRITICAL for heavy rain and WARNING for wet,
\* and the evaluation time as the key's record; within two base cooldowns it
\* gets none, and a dry or damp zone gets none.
C25_AdverseWeatherRule ==
    [][ev'.op \in KeyOps =>
          \A i \in 1..Len(out'.zones) :
              LET zone == out'.zones[i]
                  key == WeatherKey(zone.sector_id)
                  adverse == AdverseOf(out'.alerts, zone.sector_id)
              IN  /\ (zone.condition \in {"wet", "heavy_rain"} /\ ~WithinTwoCooldowns(key, now')) =>
                        /\ Cardinality(adverse) = 1
                        /\ \A j \in adverse :
                              out'.alerts[j].severity =
                                 IF zone.condition = "heavy_rain" THEN "critical" ELSE "warning"
                        /\ det'.alert_history[key] = now'
                  /\ WithinTwoCooldowns(key, now') => adverse = {}
                  /\ zone.condition \in {"dry", "damp"} => adverse = {}]_vars

\* sector 1, wet, is suppressed exactly two base cooldowns after its alert,
\* while sector 2 in heavy rain gets its CRITICAL alert
C25_Witness ==
    /\ ev.op \in KeyOps
    /\ out.zones[1].condition = "wet"
    /\ AdverseOf(out.alerts, 1) = {}
    /\ WeatherKey(1) \in DOMAIN det.alert_history
    /\ now - det.alert_history[WeatherKey(1)] = 2 * AlertCooldown
    /\ out.zones[2].condition = "heavy_rain"
    /\ \E j \in AdverseOf(out.alerts, 2) : out.alerts[j].severity = "critical"

\* C26: at an evaluation a zone gets one low-grip alert, of severity INFO,
\* exactly if its grip level is below 60 and its grip_sector key is not within
\* two base cooldowns of its last firing, and one adverse-condition alert
\* exactly if it is wet or in heavy rain and its weather_sector key is not
\* within two base cooldowns: neither depends on the other, and a zone for
\* which both hold gets both alerts, and no other weather alert.
C26_LowGripIndependent ==
    [][ev'.op \in KeyOps =>
          \A i \in 1..Len(out'.zones) :
              LET zone == out'.zones[i]
                  s == zone.sector_id
                  adverse == AdverseOf(out'.alerts, s)
                  grip == GripOf(out'.alerts, s)
                  gripDue == zone.grip_level < LOW_GRIP /\ ~WithinTwoCooldowns(GripKey(s), now')
                  adverseDue == /\ zone.condition \in {"wet", "heavy_rain"}
                                /\ ~WithinTwoCooldowns(WeatherKey(s), now')
              IN  /\ Cardinality(grip) = IF gripDue THEN 1 ELSE 0
                  /\ Cardinality(adverse) = IF adverseDue THEN 1 ELSE 0
                  /\ gripDue => det'.alert_history[GripKey(s)] = now'
                  /\ ~gripDue => Get(det'.alert_history, GripKey(s), -1)
                                    = Get(det.alert_history, GripKey(s), -1)]_vars

\* in one evaluation sector 2, in heavy rain with neither key in cooldown, got
\* both alerts, and sector 1, wet with its weather_sector key in cooldown, got
\* its low-grip alert alone
C26_Witness ==
    /\ ev.op \in KeyOps
    /\ out.zones[2].condition = "heavy_rain"
    /\ Cardinality(AdverseOf(out.alerts, 2)) = 1
    /\ Cardinality(GripOf(out.alerts, 2)) = 1
    /\ out.zones[1].condition = "wet"
    /\ AdverseOf(out.alerts, 1) = {}
    /\ Cardinality(GripOf(out.alerts, 1)) = 1

RuleOps == {"rule_baseline", "rule_evaluate", "rule_follow"}

\* the incidents of a call for one car
IncidentsOf(incidents, car) == {j \in 1..Len(incidents) : incidents[j].car_id = car}

\* C27: an evaluation compares each car's snapshot with the one the previous
\* evaluation stored: a car that lost more than 30% of the stored speed (below
\* 150, not in the pit, key not in cooldown) gets its slowdown alert and one
\* that lost more than 100 km/h of it (below 50, not in the pit) its incident;
\* a car with no stored snapshot gets neither; after the evaluation the stored
\* snapshot of every evaluated car is its current one.
C27_PreviousSnapshot ==
    [][ev'.op \in RuleOps =>
          \A c \in 1..Len(out'.cars) :
              LET cur == out'.cars[c]
                  stored == det.previous_telemetry
                  slow == AlertsOf(out'.alerts, "slowdown", c)
                  inc == IncidentsOf(out'.incidents, c)
              IN  /\ c \notin DOMAIN stored => slow = {} /\ inc = {}
                  /\ c \in DOMAIN stored =>
                        /\ slow # {} => 10 * (stored[c].speed - cur.speed) > 3 * stored[c].speed
                        /\ (/\ stored[c].speed > 0
                            /\ 10 * (stored[c].speed - cur.speed) > 3 * stored[c].speed
                            /\ cur.speed < SLOW_SPEED /\ ~cur.in_pit
                            /\ NotInCooldown(SlowdownKey(c), AlertCooldown, now')) => slow # {}
                        /\ inc # {} <=> (/\ stored[c].speed - cur.speed > INCIDENT_DROP
                                         /\ cur.speed < INCIDENT_SPEED /\ ~cur.in_pit)
                  /\ det'.previous_telemetry[c] = cur]_vars

\* car 1 fell from a stored 300 to 40: the evaluation returned its slowdown
\* alert and its incident, and stored the snapshot with 40
C27_Witness ==
    /\ ev.op = "rule_evaluate"
    /\ out.cars[1].speed = 40
    /\ AlertsOf(out.alerts, "slowdown", 1) # {}
    /\ IncidentsOf(out.incidents, 1) # {}
    /\ det.previous_telemetry[1].speed = 40

\* the whole laps behind a progress value of at least one lap
LapMarks(p) == IF p < ProgressUnits THEN 0 ELSE p \div ProgressUnits

\* the laps car c completes in the tick that leads to the next state: the lap
\* marks its progress passes on the way
LapsCompleted(c) ==
    LET before == sim.cars[c].track_progress
        delta_time == now - sim.cars[c].last_update_time
        advanced == before + sim'.cars[c].speed * delta_time
    IN  LapMarks(advanced) - LapMarks(before)

RECURSIVE SumLaps(_)
SumLaps(n) == IF n = 0 THEN 0 ELSE LapsCompleted(n) + SumLaps(n - 1)

\* C28: a tick raises the lap counter by one for every lap a vehicle completes
\* in it, also when a vehicle advances by more than a lap, and by nothing
\* else; the counter never falls between resets.
C28_LapCounterCountsCompletions ==
    [][ev'.op = "sim_tick" =>
          /\ sim'.current_lap = sim.current_lap + SumLaps(NumCars)
          /\ sim'.current_lap >= sim.current_lap]_vars

\* C29: the pit counter of every vehicle stays in 0..100; a positive counter
\* falls by one per tick and no stop starts in such a tick; the tick that
\* starts a stop reports the vehicle out of the pit, and the ticks after it
\* report it in the pit on exactly the next 100 snapshots.
C29_PitCounter ==
    [][ev'.op = "pit_tick" =>
          \A c \in Cars :
              LET k == sim.cars[c].pit_stop_cooldown
                  kNext == sim'.cars[c].pit_stop_cooldown
                  reported == out'.cars[c].in_pit
              IN  /\ kNext \in 0..100
                  /\ k > 0 => kNext = k - 1
                  /\ (k = 0 /\ kNext # 0) => kNext = 100 /\ ~reported
                  /\ k = 100 => reported
                  /\ ev'.result.run[c] <= 100
                  /\ (~reported /\ PitRun(c) > 0) => PitRun(c) = 100]_vars

\* car 1 has been through a whole pit stop and has started another one
C29_Witness ==
    /\ ev.op = "pit_tick"
    /\ PitDone(1) = 1
    /\ ~out.cars[1].in_pit
    /\ sim.cars[1].pit_stop_cooldown = 100

\* C30: every zone of the session's weather, at construction and after any
\* generation, is dry, damp or wet with the rain intensity and grip level of
\* its condition (0/95, 20/75, 60/50), and no weather alert is CRITICAL.
C30_NoHeavyRainGenerated ==
    /\ \A s \in DOMAIN race_session.weather :
          LET zone == race_session.weather[s]
          IN  \/ zone.condition = "dry" /\ zone.rain_intensity = 0 /\ zone.grip_level = 95
              \/ zone.condition = "damp" /\ zone.rain_intensity = 20 /\ zone.grip_level = 75
              \/ zone.condition = "wet" /\ zone.rain_intensity = 60 /\ zone.grip_level = 50
    /\ \A j \in 1..Len(out.alerts) :
          out.alerts[j].type = "weather" => out.alerts[j].severity # "critical"

\* a generated sequence with a wet sector 3 in damp surroundings was evaluated
\* and gave the sector its WARNING
C30_Witness ==
    /\ ev.op = "weather_detect"
    /\ race_session.weather[1].condition = "damp"
    /\ race_session.weather[3].condition = "wet"
    /\ \E j \in AdverseOf(out.alerts, 3) : out.alerts[j].severity = "warning"

\* C31: under every interleaving of start, stop, reset and task steps the
\* session is marked active exactly if its status is in_progress, a telemetry
\* or weather task is live only while the status is in_progress, and a reset
\* over REST that returns leaves the status not_started, the session inactive
\* and no task live.
C31_ActiveIffInProgress ==
    /\ is_session_active <=> Status = "in_progress"
    /\ \A i \in TaskIds : Live(i) => Status = "in_progress"
    /\ (ev.op = "reset_done" /\ ev.result = "rest") =>
          /\ Status = "not_started"
          /\ ~is_session_active
          /\ \A i \in TaskIds : ~Live(i)

\* the progress car c gains in the tick that leads to the next state, a lap
\* mark passed on the way counted in
ProgressGained(c) ==
    LET d == sim'.cars[c].track_progress - sim.cars[c].track_progress
    IN  IF d < 0 THEN d + ProgressUnits ELSE d

\* C32: in the first telemetry tick of a task, which is the first tick after a
\* start, no vehicle gains more progress than one telemetry period at 340 km/h
\* yields, however long no telemetry task was running before.
C32_PauseNotSimulated ==
    [][(ev'.op \in TelemetryTickOps /\ tasks[ev'.id].pc = "new") =>
          \A c \in Cars : ProgressGained(c) <= MAX_SPEED * TelemetrySleep]_vars

\* C33: with the snapshots coming from the simulator and both services reset
\* together, no evaluation returns a slowdown alert: the speeds reported are
\* between 50 and 340, a call changes a speed by at most 15 km/h, and no car
\* with a stored snapshot has lost more than 30% of the stored speed.
C33_NoSlowdownInSystem ==
    [][ev'.op = "drive_tick" =>
          \A c \in Cars :
              /\ AlertsOf(out'.alerts, "slowdown", c) = {}
              /\ out'.cars[c].speed >= 50 /\ out'.cars[c].speed <= 340
              /\ sim.cars[c].speed - sim'.cars[c].speed <= MAX_ACCEL_CHANGE
              /\ c \in DOMAIN det.previous_telemetry =>
                    10 * (det.previous_telemetry[c].speed - out'.cars[c].speed)
                        <= 3 * det.previous_telemetry[c].speed]_vars

\* a car out of the pit braked from a stored 80 to 65 and then to 50 km/h,
\* the largest drop the simulator yields at the lowest speed, and the
\* evaluation returned no alert for it
C33_Witness ==
    /\ ev.op = "drive_tick"
    /\ ticks = 2
    /\ 1 \in DOMAIN ev.result
    /\ ev.result[1].speed = 65
    /\ out.cars[1].speed = 50
    /\ ~out.cars[1].in_pit
    /\ AlertsOf(out.alerts, "slowdown", 1) = {}

\* C34: with the snapshots coming from the simulator, every speed reported is
\* at least 50, no evaluation returns an incident or an incident alert, and
\* no task holds an incident to publish.
C34_NoIncidentInSystem ==
    /\ \A c \in DOMAIN out.cars : out.cars[c].speed >= INCIDENT_SPEED
    /\ out.incidents = <<>>
    /\ \A j \in 1..Len(out.alerts) : out.alerts[j].type # "incident"
    /\ \A i \in TaskIds : tasks[i].incidents = <<>>

\* a car out of the pit was held at 50 km/h, where the target speed is below
\* 50, and the evaluation returned no incident
C34_Witness ==
    /\ ev.op = "drive_tick"
    /\ out.cars[1].speed = INCIDENT_SPEED
    /\ ~out.cars[1].in_pit
    /\ TargetSpeed(1, sim.cars[1].track_progress % Third) + 100 < MIN_SPEED
    /\ get_sector_from_progress(sim.cars[1].track_progress) = 1
    /\ out.incidents = <<>>

\* the alerts of a call that refer to one car
CarAlerts(alerts, car) == {j \in 1..Len(alerts) : alerts[j].car_id = car}

\* what an evaluation that finds the incident condition for car c returns for
\* it: the car has lost more than half of its stored speed and is below 150;
\* with its slowdown key out of cooldown it gets one slowdown and one incident
\* alert, both CRITICAL, and within the cooldown the incident alert alone
IncidentWithSlowdown(c) ==
    LET stored == det.previous_telemetry[c]
        cur == out'.cars[c]
        mine == CarAlerts(out'.alerts, c)
    IN  /\ stored.speed > 0
        /\ 2 * (stored.speed - cur.speed) > stored.speed
        /\ cur.speed < SLOW_SPEED
        /\ \A j \in mine : out'.alerts[j].severity = "critical"
        /\ Cardinality(AlertsOf(out'.alerts, "incident", c)) = 1
        /\ IF NotInCooldown(SlowdownKey(c), AlertCooldown, now')
           THEN /\ Cardinality(mine) = 2
                /\ Cardinality(AlertsOf(out'.alerts, "slowdown", c)) = 1
           ELSE Cardinality(mine) = 1

\* C35 as stated: at an evaluation on any snapshots, a car for which the
\* incident condition holds (stored speed minus speed above 100, speed below
\* 50, not in the pit) also meets the slowdown condition with a drop above 50%:
\* it gets two CRITICAL alerts, or the incident alert alone while its slowdown
\* key is in cooldown.
C35_IncidentImpliesSlowdown ==
    [][ev'.op \in RuleOps =>
          \A c \in 1..Len(out'.cars) :
              (/\ c \in DOMAIN det.previous_telemetry
               /\ det.previous_telemetry[c].speed - out'.cars[c].speed > INCIDENT_DROP
               /\ out'.cars[c].speed < INCIDENT_SPEED
               /\ ~out'.cars[c].in_pit)
              => IncidentWithSlowdown(c)]_vars

\* C35 amended: the same for a car whose stored speed is positive.
C35_IncidentImpliesSlowdownFromPositive ==
    [][ev'.op \in RuleOps =>
          \A c \in 1..Len(out'.cars) :
              (/\ c \in DOMAIN det.previous_telemetry
               /\ det.previous_telemetry[c].speed > 0
               /\ det.previous_telemetry[c].speed - out'.cars[c].speed > INCIDENT_DROP
               /\ out'.cars[c].speed < INCIDENT_SPEED
               /\ ~out'.cars[c].in_pit)
              => IncidentWithSlowdown(c)]_vars

\* car 1 came to a halt from a positive speed and got its two CRITICAL alerts
C35_Witness ==
    /\ ev.op = "rule_evaluate"
    /\ out.cars[1].speed = 0
    /\ Cardinality(CarAlerts(out.alerts, 1)) = 2
    /\ Cardinality(AlertsOf(out.alerts, "slowdown", 1)) = 1
    /\ Cardinality(AlertsOf(out.alerts, "incident", 1)) = 1
    /\ \A j \in CarAlerts(out.alerts, 1) : out.alerts[j].severity = "critical"

\* C36: the lap number of a snapshot is taken from the vehicle's own progress
\* after the lap completion is handled: a vehicle whose progress is at least 0
\* and below one lap is reported in lap 1 on soft tires, whatever the lap
\* counter of the simulator says.
C36_LapFromWrappedProgress ==
    [][ev'.op = "sim_tick" =>
          \A c \in Cars :
              (/\ sim'.cars[c].track_progress >= 0
               /\ sim'.cars[c].track_progress < ProgressUnits)
              => /\ out'.cars[c].current_lap = 1
                 /\ out'.cars[c].tire = "soft"]_vars

\* both cars have completed a lap in each of two ticks, the lap counter stands
\* at 5, and the snapshots report lap 1 on soft tires
C36_Witness ==
    /\ ev.op = "sim_tick"
    /\ ticks = 2
    /\ sim.current_lap = 1 + 2 * NumCars
    /\ \A c \in Cars :
          /\ sim.cars[c].track_progress >= 0
          /\ sim.cars[c].track_progress < ProgressUnits
          /\ out.cars[c].current_lap = 1
          /\ out.cars[c].tire = "soft"

====
